---- MODULE Spec2Model ----
(***************************************************************************)
(* Procurement tracker (src/app.js): the project / step data model, the    *)
(* step-completion state machine, the settings (template) editor and the   *)
(* read-modify-write protocol of FirestoreManager against one shared       *)
(* workspace document with live snapshot callbacks.                        *)
(*                                                                         *)
(* JavaScript values are represented as follows.                           *)
(*   null                -> Null           undefined / missing -> Absent   *)
(*   a nullable array or string field (notes, timeline, postits)           *)
(*                       -> Undef, Str(s) or Arr(seq)                      *)
(*   an object reference -> an index into the client's heap (0 = null)     *)
(*   array indices       -> kept 0-based as in the code; the element at    *)
(*                          JavaScript index i is seq[i + 1]               *)
(*   Date.now()          -> a reading drawn from Times (wall-clock time    *)
(*                          is not monotonic and two readings may agree)   *)
(***************************************************************************)
EXTENDS Integers, Sequences, FiniteSets, TLC

\* ------------------------------------------------------------------ bounds
MaxSteps == 3       \* longest template the settings editor may build
MaxProjects == 1    \* longest stored projects array
MaxInflight == 2    \* async handlers a client may have suspended at once
MaxInbox == 1       \* snapshot callbacks queued for one client
MaxTime == 1        \* distinct readings of the wall clock
MaxOps == 4         \* handlers the users start in the two-client specification
MaxNotes == 2       \* longest notes array of a step stored by an older version
MaxLen == 5         \* most steps of the project whose progress is followed
MaxItems == 2       \* most items of a checklist the user works on
MaxAccessOps == 3   \* handlers the users start while access codes are entered
MaxEntries == 3     \* most timeline entries, postits or item notes kept in one list
MaxFailOps == 4     \* handlers the user starts while the store may fail
MaxTemplate == 2    \* longest template built while global saves are followed
MaxStored == 3      \* longest projects array while projects are added and deleted
MaxStoreOps == 3    \* handlers the users start while projects are added and deleted
MaxStaleOps == 2    \* handlers the users start while snapshots replace their project
MaxEntryOps == 2    \* handlers the user starts while notes are edited
MaxGoneOps == 2     \* handlers the users start around a deleted project

Clients == {"A", "B"}
Times == 1001..(1000 + MaxTime)

\* ------------------------------------------------------------ JS values
Null == "null"
Absent == "undefined"
Undef == [t |-> "undef"]
Str(s) == [t |-> "str", s |-> s]
Arr(a) == [t |-> "arr", a |-> a]

\* new Date().toISOString() and Date.now().toString() of a clock reading
ISO(now) == "T" \o ToString(now)
IdOf(now) == ToString(now)

\* new Date(selectedDate).toISOString() of a day chosen in the date field
DayISO(selectedDate) == selectedDate \o "T00:00:00.000Z"

\* the completion dialog's inputs: document number (blank or text) and the
\* date field (blank, or a chosen day)
DocInputs == {"", "D1"}
DateInputs == {"", "2026-01-01"}

\* new Date(value).toISOString() of a datetime-local value (minutes), the
\* browser running in UTC
LocalISO(value) == value \o ":00.000Z"

\* the datetime-local field of a checklist item: cleared, or a chosen minute
DateTimeInputs == {"", "2026-02-02T10:00"}

\* what the edit-step dialog yields for its checklist textarea after
\* split, trim and filter: non-empty texts, repeats allowed
ChecklistInputs == {<<"A", "B">>, <<"A", "C">>, <<"A", "A">>}

\* variant: the filter misses the entries that have no type
FilterTypedOnly(notes, ok) == SelectSeq(notes, LAMBDA n : n.type \in ok \ {Absent})

RECURSIVE FilterByType(_, _)
\* notes.filter(n => <n.type is one of ok>)
FilterByType(notes, ok) ==
    IF notes = <<>> THEN <<>>
    ELSE (IF Head(notes).type \in ok THEN <<Head(notes)>> ELSE <<>>)
         \o FilterByType(Tail(notes), ok)

\* ------------------------------------------------------- Project model
\* variant: the steps of the first version, whose checklists started empty
NewStepUnseeded(t, index) ==
    [id |-> IF t.id # 0 THEN t.id ELSE index + 1,
     title |-> t.title,
     completed |-> FALSE,
     completedAt |-> Null,
     documentNumber |-> Absent,
     notes |-> Arr(<<>>),
     timeline |-> Undef,
     postits |-> Undef,
     checklist |-> <<>>]

\* one entry of template.map in the Project constructor
NewStep(t, index) ==
    [id |-> IF t.id # 0 THEN t.id ELSE index + 1,
     title |-> t.title,
     completed |-> FALSE,
     completedAt |-> Null,
     documentNumber |-> Absent,
     notes |-> Arr(<<>>),
     timeline |-> Undef,
     postits |-> Undef,
     checklist |-> [k \in 1..Len(t.defaultChecklist) |->
                      [text |-> t.defaultChecklist[k], checked |-> FALSE,
                       completedAt |-> Null]]]

\* new Project(..., template, ...)
NewProject(now, template) ==
    [id |-> IdOf(now),
     status |-> "active",
     currentStepIndex |-> 0,
     steps |-> [i \in 1..Len(template) |-> NewStep(template[i], i - 1)]]

\* variant: the index of the last incomplete step
FindLastIncomplete(steps) ==
    IF \E i \in 1..Len(steps) : ~steps[i].completed
    THEN (CHOOSE i \in 1..Len(steps) :
             /\ ~steps[i].completed
             /\ \A j \in (i + 1)..Len(steps) : steps[j].completed) - 1
    ELSE -1

\* steps.findIndex(s => !s.completed)
FindFirstIncomplete(steps) ==
    IF \E i \in 1..Len(steps) : ~steps[i].completed
    THEN (CHOOSE i \in 1..Len(steps) :
             /\ ~steps[i].completed
             /\ \A j \in 1..(i - 1) : steps[j].completed) - 1
    ELSE -1

\* variant: the pointer only moves forward
RecalculateForward(p) ==
    LET firstIncompleteIdx == FindFirstIncomplete(p.steps) IN
    IF firstIncompleteIdx # -1
    THEN [p EXCEPT !.currentStepIndex = IF firstIncompleteIdx > @ THEN firstIncompleteIdx
                                        ELSE @,
                   !.status = "active"]
    ELSE [p EXCEPT !.currentStepIndex = Len(p.steps) - 1, !.status = "completed"]

\* the pointer / status recalculation at the head of _saveAndRefreshStep
Recalculate(p) ==
    LET firstIncompleteIdx == FindFirstIncomplete(p.steps) IN
    IF firstIncompleteIdx # -1
    THEN [p EXCEPT !.currentStepIndex = firstIncompleteIdx, !.status = "active"]
    ELSE [p EXCEPT !.currentStepIndex = Len(p.steps) - 1, !.status = "completed"]

\* variant: counts the steps that are not completed
IncompleteCount(steps) == Cardinality({i \in 1..Len(steps) : ~steps[i].completed})

\* steps.filter(s => s.completed).length
CompletedCount(steps) == Cardinality({i \in 1..Len(steps) : steps[i].completed})

\* variant: Math.floor(x)
MathFloor(num, den) == num \div den

\* Math.round(x) for x = num / den >= 0: floor(x + 0.5)
MathRound(num, den) == (2 * num + den) \div (2 * den)

\* Math.round((completedCount / steps.length) * 100); 0 / 0 is NaN
ProgressPercent(steps) ==
    IF Len(steps) = 0 THEN "NaN"
    ELSE MathRound(100 * CompletedCount(steps), Len(steps))

\* variant: the revert of the older version, which keeps documentNumber
RevertStepKeepDoc(step) ==
    [step EXCEPT !.completed = FALSE, !.completedAt = Null]

\* step.completed = false; completedAt = null; documentNumber = null
RevertStep(step) ==
    [step EXCEPT !.completed = FALSE, !.completedAt = Null, !.documentNumber = Null]

\* the confirm handler of the completion dialog
CompleteStep(step, docNumber, selectedDate, now) ==
    [step EXCEPT !.completed = TRUE,
                 !.documentNumber = IF docNumber # "" THEN docNumber ELSE Null,
                 !.completedAt = IF selectedDate # "" THEN DayISO(selectedDate)
                                 ELSE ISO(now)]

\* !v of a completedAt value
Falsy(v) == v \in {Null, Absent, ""}

\* variant: unchecking keeps the date
SetCheckedKeepDate(item, checked, now) ==
    [item EXCEPT !.checked = checked,
                 !.completedAt = IF checked /\ Falsy(@) THEN ISO(now) ELSE @]

\* the checkbox change handler's assignments to the item
SetChecked(item, checked, now) ==
    [item EXCEPT !.checked = checked,
                 !.completedAt = IF checked /\ Falsy(@) THEN ISO(now)
                                 ELSE IF ~checked THEN Null
                                 ELSE @]

\* variant: a date that is set checks the item as well
SetCompletedAtAndCheck(item, value) ==
    [item EXCEPT !.completedAt = IF value # "" THEN LocalISO(value) ELSE Null,
                 !.checked = IF value # "" THEN TRUE ELSE @]

\* saveDate of the manual date edit: the assignment to the item
SetCompletedAt(item, value) ==
    [item EXCEPT !.completedAt = IF value # "" THEN LocalISO(value) ELSE Null]

\* variant: the split runs on every load, adding to what is there
MigrateStepNotesAgain(stepData, now) ==
    LET s1 == IF stepData.notes.t = "str"
              THEN [stepData EXCEPT !.notes =
                      Arr(IF stepData.notes.s # ""
                          THEN <<[timestamp |-> ISO(now), text |-> stepData.notes.s,
                                  type |-> "timeline"]>>
                          ELSE <<>>)]
              ELSE stepData
        notesOrEmpty == IF s1.notes.t = "arr" THEN s1.notes.a ELSE <<>>
        had(f) == IF f.t = "arr" THEN f.a ELSE <<>>
    IN  [s1 EXCEPT !.timeline = Arr(had(@) \o FilterByType(notesOrEmpty, {Absent, "timeline"})),
                   !.postits = Arr(had(@) \o FilterByType(notesOrEmpty, {"postit"}))]

\* the note migration of loadWorkflowStep
MigrateStepNotes(stepData, now) ==
    LET s1 == IF stepData.notes.t = "str"
              THEN [stepData EXCEPT !.notes =
                      Arr(IF stepData.notes.s # ""
                          THEN <<[timestamp |-> ISO(now), text |-> stepData.notes.s,
                                  type |-> "timeline"]>>
                          ELSE <<>>)]
              ELSE stepData
        notesOrEmpty == IF s1.notes.t = "arr" THEN s1.notes.a ELSE <<>>
        s2 == IF s1.timeline.t = "undef"
              THEN [s1 EXCEPT !.timeline =
                      Arr(FilterByType(notesOrEmpty, {Absent, "timeline"}))]
              ELSE s1
    IN  IF s2.postits.t = "undef"
        THEN [s2 EXCEPT !.postits = Arr(FilterByType(notesOrEmpty, {"postit"}))]
        ELSE s2

\* ------------------------------------------------------ error reports
\* error.message of a failed call to the store
ErrorMessage == "unavailable"

\* variant: the failure goes to the console only
ReportToConsole(a, where) == a

\* the alert of saveWorkspace, the error toast of the settings save and the
\* alert of handleAccessCodeSubmit, each with the error's message
ReportFailure(a, where) ==
    [a EXCEPT !.errorShown =
        CASE where = "saveWorkspace" -> "save failed! Error: " \o ErrorMessage
          [] where = "settings" -> "settings not saved: " \o ErrorMessage
          [] where = "connect" -> "connection error: " \o ErrorMessage]

\* ------------------------------------------------ settings propagation
\* existingItems.find(item => item.text === text), then the rebuilt item
RebuildItem(text, existingItems) ==
    LET hits == {k \in 1..Len(existingItems) : existingItems[k].text = text} IN
    [text |-> text,
     checked |-> IF hits = {} THEN FALSE
                 ELSE existingItems[CHOOSE k \in hits : \A j \in hits : k <= j].checked,
     completedAt |-> Absent]

\* newChecklistTexts.map(text => ...)
RebuildChecklist(texts, existingItems) ==
    [k \in 1..Len(texts) |-> RebuildItem(texts[k], existingItems)]

\* variant: the step count is not compared; the steps that have a template
\* entry at their position are overwritten
GlobalApplyAnyLength(projects, template) ==
    [n \in 1..Len(projects) |->
        [projects[n] EXCEPT !.steps =
            [idx \in 1..Len(@) |->
                IF idx <= Len(template)
                THEN [@[idx] EXCEPT
                        !.title = template[idx].title,
                        !.checklist = RebuildChecklist(template[idx].defaultChecklist, @)]
                ELSE @[idx]]]]

\* projects.forEach(p => ...) of the global save
GlobalApply(projects, template) ==
    [n \in 1..Len(projects) |->
        IF Len(projects[n].steps) = Len(template)
        THEN [projects[n] EXCEPT !.steps =
                [idx \in 1..Len(template) |->
                    [projects[n].steps[idx] EXCEPT
                        !.title = template[idx].title,
                        !.checklist = RebuildChecklist(template[idx].defaultChecklist, @)]]]
        ELSE projects[n]]

\* steps.find(s => s.id === t.id) || steps[idx]; 0 when there is neither
ExistingStep(steps, t, idx) ==
    LET hits == {k \in 1..Len(steps) : steps[k].id = t.id} IN
    IF hits # {} THEN CHOOSE k \in hits : \A j \in hits : k <= j
    ELSE IF idx <= Len(steps) THEN idx ELSE 0

\* the step built by tempStepsTemplate.map((t, idx) => ...) of the project save
RebuiltStep(steps, t, idx) ==
    LET e == ExistingStep(steps, t, idx) IN
    [id |-> IF t.id # 0 THEN t.id ELSE idx,
     title |-> t.title,
     completed |-> IF e # 0 THEN steps[e].completed ELSE FALSE,
     completedAt |-> IF e # 0 THEN steps[e].completedAt ELSE Null,
     documentNumber |-> Absent,
     notes |-> IF e # 0 THEN steps[e].notes ELSE Str(""),
     timeline |-> Undef,
     postits |-> Undef,
     checklist |-> RebuildChecklist(t.defaultChecklist,
                                    IF e # 0 THEN steps[e].checklist ELSE <<>>)]

\* the project-specific save up to its await: new steps, pointer clamp
ProjectApply(p, temp) ==
    LET newSteps == [idx \in 1..Len(temp) |-> RebuiltStep(p.steps, temp[idx], idx)] IN
    [p EXCEPT !.steps = newSteps,
              !.currentStepIndex =
                  IF @ >= Len(newSteps)
                  THEN (IF Len(newSteps) - 1 > 0 THEN Len(newSteps) - 1 ELSE 0)
                  ELSE @]

\* openSettingsModal(false): the project's steps as a template
StepsAsTemplate(steps) ==
    [k \in 1..Len(steps) |->
        [id |-> steps[k].id, title |-> steps[k].title,
         defaultChecklist |-> [j \in 1..Len(steps[k].checklist) |->
                                  steps[k].checklist[j].text]]]

\* ------------------------------------------------------------------ state
VARIABLES
    store,   \* the workspace document: exists, projects, customSteps
    app,     \* per client: the fields of App and what the DOM is bound to
    heap,    \* per client: the project objects its references point at
    tasks,   \* per client: the async handlers suspended at an await
    inbox,   \* per client: snapshot callbacks the store has yet to deliver
    ops      \* handlers started by users so far (bounds the two-client runs)

vars == <<store, app, heap, tasks, inbox, ops>>

\* the template a workspace's customSteps holds at the start
InitTemplate ==
    <<[id |-> 1, title |-> "S1", defaultChecklist |-> <<>>],
      [id |-> 2, title |-> "S2", defaultChecklist |-> <<>>],
      [id |-> 3, title |-> "S3", defaultChecklist |-> <<>>]>>

\* a template of n steps without checklist items, as customSteps may hold
TemplateOf(n) ==
    [k \in 1..n |-> [id |-> k, title |-> "S" \o ToString(k), defaultChecklist |-> <<>>]]

\* App's constructor, for a client that has (or has not) entered the code
\* and received the first snapshot; domObj / domIndex name the step whose
\* checklist and completion button the page shows, timelineObj / postitsObj
\* the step whose timeline / postits it lists; errorShown is the last error
\* message put before the user (an alert or an error toast); localProjects
\* is the parsed localStorage item 'protracker_projects' (Undef: no item)
NewApp(started, template) ==
    [listening |-> started,
     currentView |-> "dashboard",
     activeProject |-> 0,
     activeWorkflowStepIndex |-> 0,
     stepsTemplate |-> template,
     tempStepsTemplate |-> <<>>,
     isEditingGlobalSettings |-> FALSE,
     settingsOpen |-> FALSE,
     domObj |-> 0, domIndex |-> 0, tabCount |-> 0,
     dialogObj |-> 0, dialogIndex |-> 0,
     timelineObj |-> 0, timelineIndex |-> 0,
     postitsObj |-> 0, postitsIndex |-> 0,
     errorShown |-> "", localProjects |-> Undef]

\* an async handler suspended at its first await (the store read): kind names
\* the handler, obj the object it passed to the store manager, id / given /
\* stepIndex the arguments of openProjectDetail, data the document it writes
NewTask(kind, obj, id, given, stepIndex) ==
    [kind |-> kind, pc |-> "read", obj |-> obj, id |-> id, given |-> given,
     stepIndex |-> stepIndex, data |-> [projects |-> <<>>, customSteps |-> Undef]]

\* --------------------------------------------------------- heap upkeep
RECURSIVE LiveRefs(_, _)
\* the references in use, in a fixed order, without null and without repeats
LiveRefs(refs, seen) ==
    IF refs = <<>> THEN <<>>
    ELSE IF Head(refs) = 0 \/ Head(refs) \in seen THEN LiveRefs(Tail(refs), seen)
    ELSE <<Head(refs)>> \o LiveRefs(Tail(refs), seen \cup {Head(refs)})

\* client c continues with fields a, heap h and suspended handlers ts;
\* unreachable objects are dropped and the rest renumbered
SetClient(c, a, h, ts) ==
    LET live == LiveRefs(<<a.activeProject, a.domObj, a.dialogObj,
                           a.timelineObj, a.postitsObj>>
                         \o [i \in 1..Len(ts) |-> ts[i].obj], {})
        R(r) == IF r = 0 THEN 0 ELSE CHOOSE k \in 1..Len(live) : live[k] = r
    IN  /\ app' = [app EXCEPT ![c] = [a EXCEPT !.activeProject = R(@),
                                               !.domObj = R(@),
                                               !.dialogObj = R(@),
                                               !.timelineObj = R(@),
                                               !.postitsObj = R(@)]]
        /\ heap' = [heap EXCEPT ![c] = [k \in 1..Len(live) |-> h[live[k]]]]
        /\ tasks' = [tasks EXCEPT ![c] = [i \in 1..Len(ts) |-> [ts[i] EXCEPT !.obj = R(@)]]]

RemoveAt(seq, i) == SubSeq(seq, 1, i - 1) \o SubSeq(seq, i + 1, Len(seq))

\* ------------------------------------------------------ view operations
\* loadWorkflowStep(index) on fields a and heap h: the index is stored first,
\* then a missing project or step throws, else the step's notes are migrated
\* in place and the step is rendered
LoadWorkflowStep(a, h, index, now) ==
    LET a1 == [a EXCEPT !.activeWorkflowStepIndex = index]
        ap == a.activeProject
    IN  IF ap = 0 \/ index < 0 \/ index >= Len(h[ap].steps)
        THEN [a |-> a1, h |-> h, ok |-> FALSE]
        ELSE [a |-> [a1 EXCEPT !.domObj = ap, !.domIndex = index,
                               !.timelineObj = ap, !.timelineIndex = index,
                               !.postitsObj = ap, !.postitsIndex = index],
              h |-> [h EXCEPT ![ap].steps[index + 1] = MigrateStepNotes(@, now)],
              ok |-> TRUE]

\* renderWorkflowTabs(): one tab per step of the active project
RenderWorkflowTabs(a, h) == [a EXCEPT !.tabCount = Len(h[a.activeProject].steps)]

\* no modal dialog is covering the page
NoModal(c) == ~app[c].settingsOpen /\ app[c].dialogObj = 0

Room(c) == Len(tasks[c]) < MaxInflight

\* ------------------------------------------------------- user handlers
\* toggleStepCompletion() up to its first await: a completed step is
\* reverted, the pointer recalculated and updateProject called; an
\* incomplete step opens the completion dialog, bound to that step
ToggleStepCompletion(a, h, ts) ==
    LET ap == a.activeProject
        stepIndex == a.activeWorkflowStepIndex
    IN  IF ap = 0 \/ stepIndex < 0 \/ stepIndex >= Len(h[ap].steps)
        THEN [a |-> a, h |-> h, ts |-> ts]
        ELSE IF h[ap].steps[stepIndex + 1].completed
        THEN [a |-> a,
              h |-> [h EXCEPT ![ap] =
                       Recalculate([@ EXCEPT !.steps[stepIndex + 1] = RevertStep(@)])],
              ts |-> Append(ts, NewTask("toggle", ap, "", TRUE, stepIndex))]
        ELSE [a |-> [a EXCEPT !.dialogObj = ap, !.dialogIndex = stepIndex],
              h |-> h, ts |-> ts]

\* click on workflow tab number index: loadWorkflowStep(index), then
\* toggleStepCompletion() unless the load threw
TabClick(c, index, now) ==
    /\ app[c].listening /\ app[c].currentView = "detail" /\ NoModal(c) /\ Room(c)
    /\ index < app[c].tabCount
    /\ LET r == LoadWorkflowStep(app[c], heap[c], index, now)
           t == ToggleStepCompletion(r.a, r.h, tasks[c])
       IN  IF r.ok THEN SetClient(c, t.a, t.h, t.ts)
           ELSE SetClient(c, r.a, r.h, tasks[c])
    /\ UNCHANGED <<store, inbox>>

\* click on btnCompleteStep
ToggleButton(c) ==
    /\ app[c].listening /\ app[c].currentView = "detail" /\ NoModal(c) /\ Room(c)
    /\ LET t == ToggleStepCompletion(app[c], heap[c], tasks[c])
       IN  SetClient(c, t.a, t.h, t.ts)
    /\ UNCHANGED <<store, inbox>>

\* the dialog's confirm button: completes the step the dialog was opened
\* for, closes the dialog, then _saveAndRefreshStep up to its await
ConfirmStepComplete(c, docNumber, selectedDate, now) ==
    /\ app[c].dialogObj # 0 /\ Room(c)
    /\ LET a == [app[c] EXCEPT !.dialogObj = 0]
           d == app[c].dialogObj
           stepIndex == app[c].dialogIndex
           h1 == [heap[c] EXCEPT ![d].steps[stepIndex + 1] =
                     CompleteStep(@, docNumber, selectedDate, now)]
           ap == a.activeProject
       IN  IF ap = 0 THEN SetClient(c, a, h1, tasks[c])
           ELSE SetClient(c, a, [h1 EXCEPT ![ap] = Recalculate(@)],
                          Append(tasks[c], NewTask("toggle", ap, "", TRUE, stepIndex)))
    /\ UNCHANGED <<store, inbox>>

\* the dialog's close button
CancelStepComplete(c) ==
    /\ app[c].dialogObj # 0
    /\ SetClient(c, [app[c] EXCEPT !.dialogObj = 0], heap[c], tasks[c])
    /\ UNCHANGED <<store, inbox>>

\* btnBack: loadView('projects'); activeProject = null
Back(c) ==
    /\ app[c].listening /\ app[c].currentView = "detail" /\ NoModal(c)
    /\ SetClient(c, [app[c] EXCEPT !.currentView = "projects", !.activeProject = 0],
                 heap[c], tasks[c])
    /\ UNCHANGED <<store, inbox>>

\* a navigation item: loadView(view)
Nav(c, view) ==
    /\ app[c].listening /\ NoModal(c) /\ app[c].currentView # view
    /\ SetClient(c, [app[c] EXCEPT !.currentView = view], heap[c], tasks[c])
    /\ UNCHANGED <<store, inbox>>

\* click on the card of a listed project: openProjectDetail(id)
OpenProject(c, n) ==
    /\ app[c].listening /\ app[c].currentView # "detail" /\ NoModal(c) /\ Room(c)
    /\ n \in 1..Len(store.projects)
    /\ SetClient(c, app[c], heap[c],
                 Append(tasks[c], NewTask("open", 0, store.projects[n].id, FALSE, 0)))
    /\ UNCHANGED <<store, inbox>>

\* the checklist items the page shows: those of the step rendered last
RenderedItems(c) ==
    IF app[c].domObj = 0 THEN <<>>
    ELSE heap[c][app[c].domObj].steps[app[c].domIndex + 1].checklist

\* change of the checkbox of rendered item number index, up to the await of
\* updateProject: the box shows the opposite of what the item held
CheckboxChange(c, index, now) ==
    /\ app[c].listening /\ app[c].currentView = "detail" /\ NoModal(c) /\ Room(c)
    /\ index < Len(RenderedItems(c))
    /\ LET h == [heap[c] EXCEPT
                    ![app[c].domObj].steps[app[c].domIndex + 1].checklist[index + 1] =
                        SetChecked(@, ~@.checked, now)]
       IN  SetClient(c, app[c], h,
                     Append(tasks[c], NewTask("check", app[c].activeProject, "", FALSE, 0)))
    /\ UNCHANGED <<store, inbox>>

\* the manual date edit of rendered item number index: click on the date,
\* enter value, leave the field; saveDate up to the await of updateProject
SaveDate(c, index, value) ==
    /\ app[c].listening /\ app[c].currentView = "detail" /\ NoModal(c) /\ Room(c)
    /\ index < Len(RenderedItems(c))
    /\ LET h == [heap[c] EXCEPT
                    ![app[c].domObj].steps[app[c].domIndex + 1].checklist[index + 1] =
                        SetCompletedAt(@, value)]
       IN  SetClient(c, app[c], h,
                     Append(tasks[c], NewTask("date", app[c].activeProject, "", FALSE, 0)))
    /\ UNCHANGED <<store, inbox>>

\* the delete button of rendered item number index: splice(index, 1) on the
\* viewed step of the active project; a missing step throws
DeleteChecklistItem(c, index) ==
    /\ app[c].listening /\ app[c].currentView = "detail" /\ NoModal(c) /\ Room(c)
    /\ index < Len(RenderedItems(c))
    /\ LET ap == app[c].activeProject
           s == app[c].activeWorkflowStepIndex
       IN  IF ap = 0 \/ s < 0 \/ s >= Len(heap[c][ap].steps)
           THEN UNCHANGED <<app, heap, tasks>>
           ELSE SetClient(c, app[c],
                          [heap[c] EXCEPT ![ap].steps[s + 1].checklist =
                              IF index < Len(@) THEN RemoveAt(@, index + 1) ELSE @],
                          Append(tasks[c], NewTask("deleteItem", ap, "", FALSE, 0)))
    /\ UNCHANGED <<store, inbox>>

\* ------------------------------------------------ notes and new items
\* what the user typed into a text field, one character per element
TextInputs == {<<>>, <<" ", " ">>, <<" ", "n", " ">>, <<"m">>}

RECURSIVE TrimStart(_)
TrimStart(chars) ==
    IF chars # <<>> /\ Head(chars) = " " THEN TrimStart(Tail(chars)) ELSE chars

RECURSIVE TrimEnd(_)
TrimEnd(chars) ==
    IF chars # <<>> /\ chars[Len(chars)] = " "
    THEN TrimEnd(SubSeq(chars, 1, Len(chars) - 1))
    ELSE chars

\* variant: the typed text is taken as it is
TrimNothing(chars) == chars

\* String.prototype.trim()
Trim(chars) == TrimEnd(TrimStart(chars))

\* the string made of the characters
RECURSIVE Text(_)
Text(chars) == IF chars = <<>> THEN "" ELSE Head(chars) \o Text(Tail(chars))

\* `list || []` of a timeline or postits field
OrEmpty(list) == IF list.t = "arr" THEN list.a ELSE <<>>

\* the timeline entries / postits the page lists: those of the step that
\* renderTimeline / renderPostits rendered last
RenderedTimeline(c) ==
    IF app[c].timelineObj = 0 THEN <<>>
    ELSE OrEmpty(heap[c][app[c].timelineObj].steps[app[c].timelineIndex + 1].timeline)

RenderedPostits(c) ==
    IF app[c].postitsObj = 0 THEN <<>>
    ELSE OrEmpty(heap[c][app[c].postitsObj].steps[app[c].postitsIndex + 1].postits)

\* renderTimeline() / renderPostits(): the list is emptied, then a missing
\* project or step throws
RenderTimeline(a, h) ==
    LET ap == a.activeProject
        s == a.activeWorkflowStepIndex
    IN  IF ap = 0 \/ s < 0 \/ s >= Len(h[ap].steps) THEN [a EXCEPT !.timelineObj = 0]
        ELSE [a EXCEPT !.timelineObj = ap, !.timelineIndex = s]

RenderPostits(a, h) ==
    LET ap == a.activeProject
        s == a.activeWorkflowStepIndex
    IN  IF ap = 0 \/ s < 0 \/ s >= Len(h[ap].steps) THEN [a EXCEPT !.postitsObj = 0]
        ELSE [a EXCEPT !.postitsObj = ap, !.postitsIndex = s]

\* the detail view of an active project takes input and a handler may start
DetailReady(c) ==
    /\ app[c].listening /\ app[c].currentView = "detail" /\ NoModal(c) /\ Room(c)
    /\ app[c].activeProject # 0

\* the handler mutates the client's objects into h and suspends in
\* updateProject(this.activeProject)
StartUpdate(c, h, kind) ==
    SetClient(c, app[c], h,
              Append(tasks[c], NewTask(kind, app[c].activeProject, "", FALSE, 0)))

\* the viewed step of the active project exists
StepViewed(c) ==
    /\ app[c].activeWorkflowStepIndex >= 0
    /\ app[c].activeWorkflowStepIndex < Len(heap[c][app[c].activeProject].steps)

\* addChecklistItem() up to the await of updateProject: blank text returns,
\* a missing step throws
AddChecklistItem(c, typed, deadline, now) ==
    /\ DetailReady(c)
    /\ LET ap == app[c].activeProject
           s == app[c].activeWorkflowStepIndex
           text == Text(Trim(typed))
       IN  IF text = "" \/ ~StepViewed(c) THEN UNCHANGED <<app, heap, tasks>>
           ELSE /\ Len(heap[c][ap].steps[s + 1].checklist) < MaxItems
                /\ StartUpdate(c, [heap[c] EXCEPT ![ap].steps[s + 1].checklist =
                                      Append(@, [text |-> text, checked |-> FALSE,
                                                 createdAt |-> ISO(now),
                                                 completedAt |-> Null,
                                                 deadline |-> IF deadline = "" THEN Null
                                                              ELSE deadline])],
                               "addItem")
    /\ UNCHANGED <<store, inbox>>

\* addTimelineEntry() up to the await of updateProject
AddTimelineEntry(c, typed, now) ==
    /\ DetailReady(c)
    /\ LET ap == app[c].activeProject
           s == app[c].activeWorkflowStepIndex
           text == Text(Trim(typed))
       IN  IF text = "" \/ ~StepViewed(c) THEN UNCHANGED <<app, heap, tasks>>
           ELSE /\ Len(OrEmpty(heap[c][ap].steps[s + 1].timeline)) < MaxEntries
                /\ StartUpdate(c, [heap[c] EXCEPT ![ap].steps[s + 1].timeline =
                                      Arr(Append(OrEmpty(@), [text |-> text,
                                                              timestamp |-> ISO(now)]))],
                               "addTimeline")
    /\ UNCHANGED <<store, inbox>>

\* addPostit() up to the await of updateProject
AddPostit(c, typed, now) ==
    /\ DetailReady(c)
    /\ LET ap == app[c].activeProject
           s == app[c].activeWorkflowStepIndex
           text == Text(Trim(typed))
       IN  IF text = "" \/ ~StepViewed(c) THEN UNCHANGED <<app, heap, tasks>>
           ELSE /\ Len(OrEmpty(heap[c][ap].steps[s + 1].postits)) < MaxEntries
                /\ StartUpdate(c, [heap[c] EXCEPT ![ap].steps[s + 1].postits =
                                      Arr(Append(OrEmpty(@), [text |-> text,
                                                              timestamp |-> ISO(now)]))],
                               "addPostit")
    /\ UNCHANGED <<store, inbox>>

\* item.notes of a checklist item, `[]` when the item has none
ItemNotes(item) == IF "notes" \in DOMAIN item THEN item.notes ELSE <<>>

\* the item with its notes set
WithNotes(item, notes) ==
    [f \in DOMAIN item \cup {"notes"} |-> IF f = "notes" THEN notes ELSE item[f]]

\* saveItemNote of rendered item number index, up to the await
SaveItemNote(c, index, typed, now) ==
    /\ DetailReady(c) /\ index < Len(RenderedItems(c))
    /\ LET val == Text(Trim(typed)) IN
       IF val = "" THEN UNCHANGED <<app, heap, tasks>>
       ELSE /\ Len(ItemNotes(RenderedItems(c)[index + 1])) < MaxEntries
            /\ StartUpdate(c, [heap[c] EXCEPT
                                  ![app[c].domObj].steps[app[c].domIndex + 1]
                                      .checklist[index + 1] =
                                      WithNotes(@, Append(ItemNotes(@),
                                                          [text |-> val,
                                                           timestamp |-> ISO(now)]))],
                           "itemNote")
    /\ UNCHANGED <<store, inbox>>

\* Save Edit of listed timeline entry number index, up to the await
SaveTimelineEdit(c, index, typed) ==
    /\ DetailReady(c) /\ index < Len(RenderedTimeline(c))
    /\ LET newText == Text(Trim(typed)) IN
       IF newText = "" THEN UNCHANGED <<app, heap, tasks>>
       ELSE StartUpdate(c, [heap[c] EXCEPT
                               ![app[c].timelineObj].steps[app[c].timelineIndex + 1]
                                   .timeline.a[index + 1].text = newText],
                        "editTimeline")
    /\ UNCHANGED <<store, inbox>>

\* Save Edit of listed postit number index, up to the await
SavePostitEdit(c, index, typed) ==
    /\ DetailReady(c) /\ index < Len(RenderedPostits(c))
    /\ LET newText == Text(Trim(typed)) IN
       IF newText = "" THEN UNCHANGED <<app, heap, tasks>>
       ELSE StartUpdate(c, [heap[c] EXCEPT
                               ![app[c].postitsObj].steps[app[c].postitsIndex + 1]
                                   .postits.a[index + 1].text = newText],
                        "editPostit")
    /\ UNCHANGED <<store, inbox>>

\* variant: only the entry clicked is removed
FilterOutAt(list, index) == RemoveAt(list, index + 1)

\* stepData.timeline.filter(n => n.timestamp !== note.timestamp) for the
\* listed entry number index
FilterOutTimestamp(list, index) ==
    LET keep == {k \in 1..Len(list) : list[k].timestamp # list[index + 1].timestamp}
        F[k \in 0..Len(list)] ==
            IF k = 0 THEN <<>>
            ELSE IF k \in keep THEN Append(F[k - 1], list[k]) ELSE F[k - 1]
    IN  F[Len(list)]

\* the delete button of listed timeline entry number index, confirmed, up
\* to the await
DeleteTimelineNote(c, index) ==
    /\ DetailReady(c) /\ index < Len(RenderedTimeline(c))
    /\ StartUpdate(c, [heap[c] EXCEPT
                          ![app[c].timelineObj].steps[app[c].timelineIndex + 1].timeline =
                              Arr(FilterOutTimestamp(@.a, index))],
                   "deleteTimeline")
    /\ UNCHANGED <<store, inbox>>

\* the delete button of listed postit number index, confirmed, up to the
\* await: stepData.postits.splice(idx, 1)
DeletePostit(c, index) ==
    /\ DetailReady(c) /\ index < Len(RenderedPostits(c))
    /\ StartUpdate(c, [heap[c] EXCEPT
                          ![app[c].postitsObj].steps[app[c].postitsIndex + 1].postits =
                              Arr(RemoveAt(@.a, index + 1))],
                   "deletePostit")
    /\ UNCHANGED <<store, inbox>>

CreatesInFlight ==
    Cardinality({<<c, i>> \in Clients \X (1..MaxInflight) :
                    i <= Len(tasks[c]) /\ tasks[c][i].kind = "create"})

\* the stored projects and those being added are fewer than limit
CreateRoom(limit) == Len(store.projects) + CreatesInFlight < limit

\* handleCreateProject() up to the await inside addProject
HandleCreateProject(c, now) ==
    /\ app[c].listening /\ NoModal(c) /\ Room(c)
    /\ LET h == Append(heap[c], NewProject(now, app[c].stepsTemplate))
       IN  SetClient(c, app[c], h, Append(tasks[c], NewTask("create", Len(h), "", FALSE, 0)))
    /\ UNCHANGED <<store, inbox>>

\* btnDeleteProject, confirmed, up to the await inside deleteProject: the id
\* of the active project is the argument; without an active project the
\* handler throws
HandleDeleteProject(c) ==
    /\ app[c].listening /\ app[c].currentView = "detail" /\ NoModal(c) /\ Room(c)
    /\ LET ap == app[c].activeProject IN
       IF ap = 0 THEN UNCHANGED <<app, heap, tasks>>
       ELSE SetClient(c, app[c], heap[c],
                      Append(tasks[c], NewTask("delete", 0, heap[c][ap].id, FALSE, 0)))
    /\ UNCHANGED <<store, inbox>>

\* ------------------------------------------------------ settings editor
\* openSettingsModal(isGlobal): from the navigation (global) or from the
\* detail view's workflow button (project)
OpenSettingsModal(c, isGlobal) ==
    /\ app[c].listening /\ NoModal(c)
    /\ isGlobal \/ (app[c].currentView = "detail" /\ app[c].activeProject # 0)
    /\ SetClient(c, [app[c] EXCEPT
                       !.isEditingGlobalSettings = isGlobal,
                       !.settingsOpen = TRUE,
                       !.tempStepsTemplate =
                           IF isGlobal THEN app[c].stepsTemplate
                           ELSE StepsAsTemplate(heap[c][app[c].activeProject].steps)],
                 heap[c], tasks[c])
    /\ UNCHANGED <<store, inbox>>

\* the template being edited has fewer than limit steps
TemplateRoom(c, limit) == Len(app[c].tempStepsTemplate) < limit

\* btnAddStepTemplate: push a new step whose id is Date.now()
AddStepTemplate(c, now) ==
    /\ app[c].settingsOpen
    /\ SetClient(c, [app[c] EXCEPT !.tempStepsTemplate =
                       Append(@, [id |-> now, title |-> "new", defaultChecklist |-> <<>>])],
                 heap[c], tasks[c])
    /\ UNCHANGED <<store, inbox>>

\* a step's delete button: tempStepsTemplate.splice(index, 1)
DeleteStepTemplate(c, index) ==
    /\ app[c].settingsOpen /\ index < Len(app[c].tempStepsTemplate)
    /\ SetClient(c, [app[c] EXCEPT !.tempStepsTemplate = RemoveAt(@, index + 1)],
                 heap[c], tasks[c])
    /\ UNCHANGED <<store, inbox>>

\* the edit-step dialog of template step number index, opened and saved:
\* saveStepEdit with a title and the checklist texts; a blank title is refused
SaveStepEdit(c, index, newTitle, newChecklist) ==
    /\ app[c].settingsOpen /\ index < Len(app[c].tempStepsTemplate)
    /\ newTitle # ""
    /\ SetClient(c, [app[c] EXCEPT !.tempStepsTemplate[index + 1] =
                       [@ EXCEPT !.title = newTitle, !.defaultChecklist = newChecklist]],
                 heap[c], tasks[c])
    /\ UNCHANGED <<store, inbox>>

\* the settings modal's close button
CloseSettings(c) ==
    /\ app[c].settingsOpen
    /\ SetClient(c, [app[c] EXCEPT !.settingsOpen = FALSE], heap[c], tasks[c])
    /\ UNCHANGED <<store, inbox>>

\* btnSaveSettings in global mode, up to the await of getWorkspaceData
SaveGlobalSettings(c) ==
    /\ app[c].settingsOpen /\ app[c].isEditingGlobalSettings /\ Room(c)
    /\ SetClient(c, [app[c] EXCEPT !.stepsTemplate = app[c].tempStepsTemplate],
                 heap[c], Append(tasks[c], NewTask("globalSave", 0, "", FALSE, 0)))
    /\ UNCHANGED <<store, inbox>>

\* btnSaveSettings in project mode, up to the await of updateProject: the
\* active project gets a new steps array; what the DOM rendered (and an open
\* dialog) stays bound to the step objects of the old array
SaveProjectSettings(c) ==
    /\ app[c].settingsOpen /\ ~app[c].isEditingGlobalSettings /\ Room(c)
    /\ LET a == app[c]
           ap == a.activeProject
           old == Len(heap[c]) + 1
           h == Append([heap[c] EXCEPT ![ap] = ProjectApply(@, a.tempStepsTemplate)],
                       heap[c][ap])
       IN  IF ap = 0 THEN UNCHANGED <<app, heap, tasks>>
           ELSE SetClient(c, [a EXCEPT !.domObj = IF @ = ap THEN old ELSE @,
                                       !.dialogObj = IF @ = ap THEN old ELSE @,
                                       !.timelineObj = IF @ = ap THEN old ELSE @,
                                       !.postitsObj = IF @ = ap THEN old ELSE @],
                          h, Append(tasks[c], NewTask("projSave", ap, "", FALSE, 0)))
    /\ UNCHANGED <<store, inbox>>

\* ------------------------------------------------------ store manager
\* variant: a read that fails is answered from the copy the client caches
GetWorkspaceDataCached(ok) ==
    IF store.exists THEN [null |-> FALSE, data |-> store] ELSE [null |-> TRUE]

\* getWorkspaceData(): the document's data, or null when there is no
\* document and when the read failed (ok: the read succeeded)
GetWorkspaceData(ok) ==
    IF ok /\ store.exists THEN [null |-> FALSE, data |-> store] ELSE [null |-> TRUE]

\* getProjects(): data?.projects || []
GetProjects(ok) ==
    LET data == GetWorkspaceData(ok) IN
    IF data.null THEN <<>> ELSE data.data.projects

\* variant: a failed check is taken as "no such workspace"
CheckWorkspaceLenient(ok) == IF ok /\ store.exists THEN "true" ELSE "false"

\* checkWorkspace(code): docSnap.exists(), or the error rethrown
CheckWorkspace(ok) ==
    IF ~ok THEN "throw" ELSE IF store.exists THEN "true" ELSE "false"

\* variant: a project that is not found takes the place of the last one
FindIndexOrLast(projects, id) ==
    LET hits == {k \in 1..Len(projects) : projects[k].id = id} IN
    IF hits = {} THEN Len(projects) ELSE CHOOSE k \in hits : \A j \in hits : k <= j

\* variant: the index of the first project, whatever its id
FindIndexFirst(projects, id) == IF projects = <<>> THEN 0 ELSE 1

\* projects.findIndex(p => p.id === id) + 1, so 0 when there is none
FindIndexById(projects, id) ==
    LET hits == {k \in 1..Len(projects) : projects[k].id = id} IN
    IF hits = {} THEN 0 ELSE CHOOSE k \in hits : \A j \in hits : k <= j

\* projects.filter(p => p.id !== id)
FilterOutId(projects, id) ==
    LET F[k \in 0..Len(projects)] ==
            IF k = 0 THEN <<>>
            ELSE IF projects[k].id # id THEN Append(F[k - 1], projects[k]) ELSE F[k - 1]
    IN  F[Len(projects)]

\* variant: setDoc without {merge: true}, which drops the fields not given
MergeWriteReplace(doc, data) ==
    [exists |-> TRUE, projects |-> data.projects, customSteps |-> data.customSteps]

\* variant: a merge that descends into the steps and keeps a completion the
\* document already holds
MergeWriteDeep(doc, data) ==
    [exists |-> TRUE,
     projects |-> [n \in 1..Len(data.projects) |->
        IF /\ n <= Len(doc.projects)
           /\ doc.projects[n].id = data.projects[n].id
           /\ Len(doc.projects[n].steps) = Len(data.projects[n].steps)
        THEN [data.projects[n] EXCEPT !.steps =
                 [k \in 1..Len(@) |->
                     IF doc.projects[n].steps[k].completed /\ ~@[k].completed
                     THEN doc.projects[n].steps[k] ELSE @[k]]]
        ELSE data.projects[n]],
     customSteps |-> IF data.customSteps.t = "arr" THEN data.customSteps
                     ELSE doc.customSteps]

\* setDoc(docRef, data, {merge: true}): top-level fields replace, others stay
MergeWrite(doc, data) ==
    [exists |-> TRUE,
     projects |-> data.projects,
     customSteps |-> IF data.customSteps.t = "arr" THEN data.customSteps
                     ELSE doc.customSteps]

InboxRoom == \A d \in Clients : app[d].listening => Len(inbox[d]) < MaxInbox

\* a change of the document queues one snapshot callback per listener
Notify(doc) ==
    inbox' = [d \in Clients |->
                 IF app[d].listening THEN Append(inbox[d], doc) ELSE inbox[d]]

\* what runs after `await FirestoreManager.updateProject(...)` and the like
\* returned, for suspended handler i of client c
Continue(c, i, wrote, now) ==
    LET t == tasks[c][i]
        \* a failed write was reported before the call returned or threw
        a == IF t.pc = "write" /\ ~wrote
             THEN ReportFailure(app[c], IF t.kind = "globalSave" THEN "settings"
                                        ELSE "saveWorkspace")
             ELSE app[c]
        rest == RemoveAt(tasks[c], i)
    IN  CASE t.kind = "toggle" ->
               \* loadWorkflowStep(stepIndex); renderWorkflowTabs()
               LET r == LoadWorkflowStep(a, heap[c], t.stepIndex, now) IN
               IF r.ok THEN SetClient(c, RenderWorkflowTabs(r.a, r.h), r.h, rest)
               ELSE SetClient(c, r.a, r.h, rest)
          [] t.kind \in {"check", "date", "deleteItem", "addItem", "itemNote"} ->
               \* loadWorkflowStep(activeWorkflowStepIndex)
               LET r == LoadWorkflowStep(a, heap[c], a.activeWorkflowStepIndex, now) IN
               SetClient(c, r.a, r.h, rest)
          [] t.kind \in {"addTimeline", "editTimeline", "deleteTimeline"} ->
               \* renderTimeline()
               SetClient(c, RenderTimeline(a, heap[c]), heap[c], rest)
          [] t.kind \in {"addPostit", "editPostit", "deletePostit"} ->
               \* renderPostits()
               SetClient(c, RenderPostits(a, heap[c]), heap[c], rest)
          [] t.kind = "projSave" ->
               \* openProjectDetail(activeProject.id, activeWorkflowStepIndex),
               \* then the modal closes; a null activeProject throws instead
               IF a.activeProject = 0 THEN SetClient(c, a, heap[c], rest)
               ELSE SetClient(c, [a EXCEPT !.settingsOpen = FALSE], heap[c],
                              [tasks[c] EXCEPT ![i] =
                                  NewTask("open", 0, heap[c][a.activeProject].id,
                                          TRUE, a.activeWorkflowStepIndex)])
          [] t.kind \in {"create", "delete"} ->
               \* loadView('projects')
               SetClient(c, [a EXCEPT !.currentView = "projects"], heap[c], rest)
          [] t.kind = "globalSave" ->
               \* updateWorkspaceSettings rethrows: the modal closes on success
               SetClient(c, [a EXCEPT !.settingsOpen = IF wrote THEN FALSE ELSE @],
                         heap[c], rest)

\* the store answers the read a suspended handler is waiting for (ok: the
\* read succeeded); the handler runs on to its next await or to its end
TaskRead(c, i, ok, now) ==
    /\ i \in 1..Len(tasks[c]) /\ tasks[c][i].pc = "read"
    /\ UNCHANGED <<store, inbox>>
    /\ LET t == tasks[c][i]
           a == app[c]
           projects == GetProjects(ok)
           suspend(data) == SetClient(c, a, heap[c],
                               [tasks[c] EXCEPT ![i] =
                                   [t EXCEPT !.pc = "write", !.obj = 0, !.data = data]])
       IN  CASE t.kind \in {"toggle", "projSave", "check", "date", "deleteItem",
                            "addItem", "itemNote", "addTimeline", "editTimeline",
                            "deleteTimeline", "addPostit", "editPostit",
                            "deletePostit"} ->
                  \* updateProject: replace the entry with the same id, if any
                  LET index == FindIndexById(projects, heap[c][t.obj].id) IN
                  IF index # 0
                  THEN SetClient(c, a, heap[c],
                           [tasks[c] EXCEPT ![i] =
                               [t EXCEPT !.pc = "write", !.obj = 0,
                                         !.id = heap[c][t.obj].id,
                                         !.data = [projects |->
                                                      [projects EXCEPT ![index] =
                                                          heap[c][t.obj]],
                                                   customSteps |-> Undef]]])
                  ELSE Continue(c, i, FALSE, now)
             [] t.kind = "create" ->
                  \* addProject: projects.unshift(project)
                  suspend([projects |-> <<heap[c][t.obj]>> \o projects,
                           customSteps |-> Undef])
             [] t.kind = "delete" ->
                  \* deleteProject: projects.filter(p => p.id !== id)
                  suspend([projects |-> FilterOutId(projects, t.id),
                           customSteps |-> Undef])
             [] t.kind = "globalSave" ->
                  \* workspace.projects throws when getWorkspaceData gave null
                  LET workspace == GetWorkspaceData(ok) IN
                  IF ~workspace.null
                  THEN suspend([projects |-> GlobalApply(workspace.data.projects,
                                                         a.stepsTemplate),
                                customSteps |-> Arr(a.stepsTemplate)])
                  ELSE SetClient(c, a, heap[c], RemoveAt(tasks[c], i))
             [] t.kind = "open" ->
                  \* openProjectDetail after getProject(id)
                  LET index == FindIndexById(projects, t.id)
                      ref == Len(heap[c]) + 1
                      h == Append(heap[c], projects[index])
                      a1 == RenderWorkflowTabs(
                                [a EXCEPT !.activeProject = ref, !.currentView = "detail"], h)
                      targetStep == IF t.given THEN t.stepIndex
                                    ELSE projects[index].currentStepIndex
                      r == LoadWorkflowStep(a1, h, targetStep, now)
                  IN  IF index = 0 THEN SetClient(c, a, heap[c], RemoveAt(tasks[c], i))
                      ELSE SetClient(c, r.a, r.h, RemoveAt(tasks[c], i))

\* the store answers the write a suspended handler is waiting for (ok: the
\* write was applied); saveWorkspace swallows a failure
TaskWrite(c, i, ok, now) ==
    /\ i \in 1..Len(tasks[c]) /\ tasks[c][i].pc = "write"
    /\ IF ok
       THEN /\ InboxRoom
            /\ store' = MergeWrite(store, tasks[c][i].data)
            /\ Notify(store')
       ELSE UNCHANGED <<store, inbox>>
    /\ Continue(c, i, ok, now)

\* ------------------------------------------------------- access code
\* handleAccessCodeSubmit() up to the await of checkWorkspace; the user
\* submits the code once and waits for the answer
HandleAccessCodeSubmit(c) ==
    /\ ~app[c].listening /\ Room(c)
    /\ \A i \in 1..Len(tasks[c]) : tasks[c][i].kind # "access"
    /\ SetClient(c, app[c], heap[c],
                 Append(tasks[c], [NewTask("access", 0, "", FALSE, 0) EXCEPT !.pc = "check"]))
    /\ UNCHANGED <<store, inbox>>

\* initAccessCodeSystem() with the code set: the access modal closes, the
\* snapshot listener is registered, the dashboard is loaded
InitAccessCodeSystem(a) == [a EXCEPT !.listening = TRUE, !.currentView = "dashboard"]

\* checkWorkspace answers (ok: the read succeeded): an error is caught by
\* the handler, which alerts and ends; an existing workspace is entered (the
\* new listener gets the document as its first snapshot); for a missing one
\* the handler goes on to saveWorkspace({projects: []})
CheckWorkspaceDone(c, i, ok) ==
    /\ i \in 1..Len(tasks[c]) /\ tasks[c][i].pc = "check"
    /\ UNCHANGED store
    /\ LET exists == CheckWorkspace(ok) IN
       CASE exists = "throw" ->
              /\ SetClient(c, ReportFailure(app[c], "connect"), heap[c],
                           RemoveAt(tasks[c], i))
              /\ UNCHANGED inbox
         [] exists = "false" ->
              /\ SetClient(c, app[c], heap[c],
                           [tasks[c] EXCEPT ![i] = [@ EXCEPT !.pc = "create"]])
              /\ UNCHANGED inbox
         [] exists = "true" ->
              /\ SetClient(c, InitAccessCodeSystem(app[c]), heap[c], RemoveAt(tasks[c], i))
              /\ inbox' = [inbox EXCEPT ![c] = Append(@, store)]

\* the write of saveWorkspace({projects: []}) is answered (ok: it was
\* applied; a failure is swallowed), then initAccessCodeSystem()
CreateWorkspaceDone(c, i, ok) ==
    /\ i \in 1..Len(tasks[c]) /\ tasks[c][i].pc = "create"
    /\ IF ok
       THEN /\ InboxRoom
            /\ store' = MergeWrite(store, tasks[c][i].data)
       ELSE UNCHANGED store
    /\ inbox' = [d \in Clients |->
                    IF d = c \/ (ok /\ app[d].listening) THEN Append(inbox[d], store')
                    ELSE inbox[d]]
    /\ SetClient(c, InitAccessCodeSystem(IF ok THEN app[c]
                                          ELSE ReportFailure(app[c], "saveWorkspace")),
                 heap[c], RemoveAt(tasks[c], i))

\* handleMigration() with a code typed and the confirm accepted, up to the
\* await of saveWorkspace({projects}); the button shows only while the local
\* item holds projects
HandleMigration(c) ==
    /\ ~app[c].listening /\ Room(c)
    /\ app[c].localProjects.t = "arr" /\ Len(app[c].localProjects.a) > 0
    /\ \A i \in 1..Len(tasks[c]) : tasks[c][i].kind \notin {"access", "migrate"}
    /\ SetClient(c, app[c], heap[c],
                 Append(tasks[c],
                        [NewTask("migrate", 0, "", FALSE, 0) EXCEPT
                            !.pc = "migrate",
                            !.data = [projects |-> app[c].localProjects.a,
                                      customSteps |-> Undef]]))
    /\ UNCHANGED <<store, inbox>>

\* the write of handleMigration is answered (ok: it was applied; a failure
\* is swallowed by saveWorkspace), then the local item is removed and
\* initAccessCodeSystem() runs
MigrationWriteDone(c, i, ok) ==
    /\ i \in 1..Len(tasks[c]) /\ tasks[c][i].pc = "migrate"
    /\ IF ok
       THEN /\ InboxRoom
            /\ store' = MergeWrite(store, tasks[c][i].data)
       ELSE UNCHANGED store
    /\ inbox' = [d \in Clients |->
                    IF d = c \/ (ok /\ app[d].listening) THEN Append(inbox[d], store')
                    ELSE inbox[d]]
    /\ SetClient(c, [InitAccessCodeSystem(IF ok THEN app[c]
                                           ELSE ReportFailure(app[c], "saveWorkspace"))
                        EXCEPT !.localProjects = Undef],
                 heap[c], RemoveAt(tasks[c], i))

\* variant: a snapshot that arrives while a mutation is suspended does not
\* replace the active project
DeliverUnlessBusy(c) ==
    /\ inbox[c] # <<>>
    /\ inbox' = [inbox EXCEPT ![c] = Tail(@)]
    /\ UNCHANGED store
    /\ LET data == Head(inbox[c])
           a == [app[c] EXCEPT !.stepsTemplate =
                     IF data.customSteps.t = "arr" THEN data.customSteps.a ELSE @]
           ap == a.activeProject
           index == IF ap = 0 THEN 0 ELSE FindIndexById(data.projects, heap[c][ap].id)
           ref == Len(heap[c]) + 1
           busy == \E i \in 1..Len(tasks[c]) : tasks[c][i].kind # "open"
       IN  IF data.exists /\ a.currentView = "detail" /\ ap # 0 /\ index # 0 /\ ~busy
           THEN /\ Room(c)
                /\ SetClient(c, [a EXCEPT !.activeProject = ref],
                             Append(heap[c], data.projects[index]),
                             Append(tasks[c],
                                    NewTask("open", 0, data.projects[index].id, TRUE,
                                            a.activeWorkflowStepIndex)))
           ELSE SetClient(c, IF data.exists THEN a ELSE app[c], heap[c], tasks[c])

\* the onSnapshot callback registered by initAccessCodeSystem
Deliver(c) ==
    /\ inbox[c] # <<>>
    /\ inbox' = [inbox EXCEPT ![c] = Tail(@)]
    /\ UNCHANGED store
    /\ LET data == Head(inbox[c])
           a == [app[c] EXCEPT !.stepsTemplate =
                     IF data.customSteps.t = "arr" THEN data.customSteps.a ELSE @]
           ap == a.activeProject
           index == IF ap = 0 THEN 0 ELSE FindIndexById(data.projects, heap[c][ap].id)
           ref == Len(heap[c]) + 1
       IN  IF data.exists /\ a.currentView = "detail" /\ ap # 0 /\ index # 0
           THEN /\ Room(c)
                /\ SetClient(c, [a EXCEPT !.activeProject = ref],
                             Append(heap[c], data.projects[index]),
                             Append(tasks[c],
                                    NewTask("open", 0, data.projects[index].id, TRUE,
                                            a.activeWorkflowStepIndex)))
           ELSE SetClient(c, IF data.exists THEN a ELSE app[c], heap[c], tasks[c])

\* ------------------------------------------------------- specifications
\* the user waits for a handler and its snapshot before starting the next
Idle(c) == tasks[c] = <<>> /\ inbox[c] = <<>>

\* the user waits for a mutation to finish before starting the next handler;
\* reloads of the detail view may still be under way
NoMutation(c) == \A i \in 1..Len(tasks[c]) : tasks[c][i].kind = "open"

\* what openProjectDetail(project.id) leaves in a client that just started
Opened(project, template) ==
    LET h == <<project>>
        a == RenderWorkflowTabs([NewApp(TRUE, template) EXCEPT !.activeProject = 1,
                                                              !.currentView = "detail"], h)
    IN  LoadWorkflowStep(a, h, project.currentStepIndex, 1001)

\* a stored project every step of which has been loaded and saved once
ViewedProject(p) ==
    [p EXCEPT !.steps = [k \in 1..Len(p.steps) |-> MigrateStepNotes(p.steps[k], 1001)]]

\* the workspace holds the projects given and the template given as
\* customSteps; client A has entered the access code, client B has not
OneClient(projects, template) ==
    /\ store = [exists |-> TRUE, projects |-> projects, customSteps |-> Arr(template)]
    /\ app = [c \in Clients |-> NewApp(c = "A", template)]
    /\ heap = [c \in Clients |-> <<>>]
    /\ tasks = [c \in Clients |-> <<>>]
    /\ inbox = [c \in Clients |-> <<>>]
    /\ ops = 0

\* ---- Spec: one client works through a new three-step project and deletes
\* steps of that project in its settings, one handler at a time
Init == OneClient(<<NewProject(1001, InitTemplate)>>, InitTemplate)

Next ==
    \E c \in Clients :
        \/ \E index \in 0..(MaxSteps - 1), now \in Times :
              Idle(c) /\ TabClick(c, index, now) /\ UNCHANGED ops
        \/ Idle(c) /\ ToggleButton(c) /\ UNCHANGED ops
        \/ \E now \in Times :
              Idle(c) /\ ConfirmStepComplete(c, "D1", "2026-01-01", now) /\ UNCHANGED ops
        \/ Idle(c) /\ CancelStepComplete(c) /\ UNCHANGED ops
        \/ Idle(c) /\ Back(c) /\ UNCHANGED ops
        \/ \E n \in 1..MaxProjects : Idle(c) /\ OpenProject(c, n) /\ UNCHANGED ops
        \/ Idle(c) /\ OpenSettingsModal(c, FALSE) /\ UNCHANGED ops
        \/ \E index \in 0..(MaxSteps - 1) :
              Idle(c) /\ DeleteStepTemplate(c, index) /\ UNCHANGED ops
        \/ Idle(c) /\ CloseSettings(c) /\ UNCHANGED ops
        \/ Idle(c) /\ SaveProjectSettings(c) /\ UNCHANGED ops
        \/ \E i \in 1..MaxInflight, now \in Times :
              TaskRead(c, i, TRUE, now) /\ UNCHANGED ops
        \/ \E i \in 1..MaxInflight, now \in Times :
              TaskWrite(c, i, TRUE, now) /\ UNCHANGED ops
        \/ Deliver(c) /\ UNCHANGED ops

Spec == Init /\ [][Next]_vars

\* ---- SpecFlow: one client works through a new three-step project, with
\* and without a document number and a chosen date
NextFlow ==
    \E c \in Clients :
        \/ \E index \in 0..(MaxSteps - 1), now \in Times :
              Idle(c) /\ TabClick(c, index, now) /\ UNCHANGED ops
        \/ Idle(c) /\ ToggleButton(c) /\ UNCHANGED ops
        \/ \E d \in DocInputs, s \in DateInputs, now \in Times :
              Idle(c) /\ ConfirmStepComplete(c, d, s, now) /\ UNCHANGED ops
        \/ Idle(c) /\ CancelStepComplete(c) /\ UNCHANGED ops
        \/ Idle(c) /\ Back(c) /\ UNCHANGED ops
        \/ \E n \in 1..MaxProjects : Idle(c) /\ OpenProject(c, n) /\ UNCHANGED ops
        \/ \E i \in 1..MaxInflight, now \in Times :
              TaskRead(c, i, TRUE, now) /\ UNCHANGED ops
        \/ \E i \in 1..MaxInflight, now \in Times :
              TaskWrite(c, i, TRUE, now) /\ UNCHANGED ops
        \/ Deliver(c) /\ UNCHANGED ops

SpecFlow == Init /\ [][NextFlow]_vars

\* ---- SpecGlobal: one client edits the global template and creates a
\* project, one handler at a time
InitGlobal == OneClient(<<>>, InitTemplate)

NextGlobal ==
    \E c \in Clients :
        \/ Idle(c) /\ OpenSettingsModal(c, TRUE) /\ UNCHANGED ops
        \/ \E now \in Times :
              Idle(c) /\ TemplateRoom(c, MaxSteps) /\ AddStepTemplate(c, now)
              /\ UNCHANGED ops
        \/ \E index \in 0..(MaxSteps - 1) :
              Idle(c) /\ DeleteStepTemplate(c, index) /\ UNCHANGED ops
        \/ Idle(c) /\ CloseSettings(c) /\ UNCHANGED ops
        \/ Idle(c) /\ SaveGlobalSettings(c) /\ UNCHANGED ops
        \/ \E now \in Times :
              Idle(c) /\ CreateRoom(MaxProjects) /\ HandleCreateProject(c, now)
              /\ UNCHANGED ops
        \/ \E n \in 1..MaxProjects : Idle(c) /\ OpenProject(c, n) /\ UNCHANGED ops
        \/ \E i \in 1..MaxInflight, now \in Times :
              TaskRead(c, i, TRUE, now) /\ UNCHANGED ops
        \/ \E i \in 1..MaxInflight, now \in Times :
              TaskWrite(c, i, TRUE, now) /\ UNCHANGED ops
        \/ Deliver(c) /\ UNCHANGED ops

SpecGlobal == InitGlobal /\ [][NextGlobal]_vars

\* ---- SpecSync: two clients on the same two-step project
\* A and B have both opened the project, every step of which was viewed and
\* saved before
SyncProject == ViewedProject(NewProject(1001, SubSeq(InitTemplate, 1, 2)))

InitSync ==
    /\ store = [exists |-> TRUE,
                projects |-> <<SyncProject>>,
                customSteps |-> Arr(SubSeq(InitTemplate, 1, 2))]
    /\ app = [c \in Clients |-> Opened(SyncProject, SubSeq(InitTemplate, 1, 2)).a]
    /\ heap = [c \in Clients |-> Opened(SyncProject, SubSeq(InitTemplate, 1, 2)).h]
    /\ tasks = [c \in Clients |-> <<>>]
    /\ inbox = [c \in Clients |-> <<>>]
    /\ ops = 0

NextSync ==
    \E c \in Clients :
        \/ \E index \in 0..(MaxSteps - 1), now \in Times :
              /\ NoMutation(c) /\ ops < MaxOps
              /\ TabClick(c, index, now)
              /\ ops' = ops + 1
        \/ \E now \in Times :
              /\ NoMutation(c) /\ ops < MaxOps
              /\ ConfirmStepComplete(c, "D1", "2026-01-01", now)
              /\ ops' = ops + 1
        \/ \E i \in 1..MaxInflight, now \in Times :
              TaskRead(c, i, TRUE, now) /\ UNCHANGED ops
        \/ \E i \in 1..MaxInflight, now \in Times :
              TaskWrite(c, i, TRUE, now) /\ UNCHANGED ops
        \/ Deliver(c) /\ UNCHANGED ops

SpecSync == InitSync /\ [][NextSync]_vars

\* ---- SpecNotes: one client works on a one-step project whose step was
\* stored by an older version: notes is missing, a string, or an array of
\* entries with or without a type; timeline and postits are missing
NoteEntries ==
    {[timestamp |-> "T0", text |-> "n", type |-> ty] : ty \in {Absent, "timeline", "postit"}}

LegacyNotes ==
    {Undef, Str(""), Str("memo")}
        \cup {Arr(a) : a \in UNION {[1..k -> NoteEntries] : k \in 0..MaxNotes}}

LegacyProject(notes) ==
    [NewProject(1001, SubSeq(InitTemplate, 1, 1)) EXCEPT !.steps[1].notes = notes]

\* timeline or postits of a stored step: missing, empty, or one entry
LegacyLists ==
    {Undef, Arr(<<>>), Arr(<<[timestamp |-> "T1", text |-> "kept", type |-> "timeline"]>>)}

\* the stored step of p came with (or without) timeline and postits
WithLists(p, timeline, postits) ==
    [p EXCEPT !.steps[1].timeline = timeline, !.steps[1].postits = postits]

InitNotes ==
    \E notes \in LegacyNotes, timeline \in LegacyLists, postits \in LegacyLists :
        OneClient(<<WithLists(LegacyProject(notes), timeline, postits)>>, InitTemplate)

NextNotes ==
    \E c \in Clients :
        \/ \E index \in 0..(MaxSteps - 1), now \in Times :
              Idle(c) /\ TabClick(c, index, now) /\ UNCHANGED ops
        \/ Idle(c) /\ ToggleButton(c) /\ UNCHANGED ops
        \/ \E now \in Times :
              Idle(c) /\ ConfirmStepComplete(c, "D1", "2026-01-01", now) /\ UNCHANGED ops
        \/ Idle(c) /\ CancelStepComplete(c) /\ UNCHANGED ops
        \/ Idle(c) /\ Back(c) /\ UNCHANGED ops
        \/ \E n \in 1..MaxProjects : Idle(c) /\ OpenProject(c, n) /\ UNCHANGED ops
        \/ \E i \in 1..MaxInflight, now \in Times :
              TaskRead(c, i, TRUE, now) /\ UNCHANGED ops
        \/ \E i \in 1..MaxInflight, now \in Times :
              TaskWrite(c, i, TRUE, now) /\ UNCHANGED ops
        \/ Deliver(c) /\ UNCHANGED ops

SpecNotes == InitNotes /\ [][NextNotes]_vars

\* ---- SpecProgress: one client completes and reverts the steps of a new
\* project of one to MaxLen steps
InitProgress ==
    \E n \in 1..MaxLen : OneClient(<<NewProject(1001, TemplateOf(n))>>, TemplateOf(n))

NextProgress ==
    \E c \in Clients :
        \/ \E index \in 0..(MaxLen - 1), now \in Times :
              Idle(c) /\ TabClick(c, index, now) /\ UNCHANGED ops
        \/ \E now \in Times :
              Idle(c) /\ ConfirmStepComplete(c, "D1", "2026-01-01", now) /\ UNCHANGED ops
        \/ \E n \in 1..MaxProjects : Idle(c) /\ OpenProject(c, n) /\ UNCHANGED ops
        \/ \E i \in 1..MaxInflight, now \in Times :
              TaskRead(c, i, TRUE, now) /\ UNCHANGED ops
        \/ \E i \in 1..MaxInflight, now \in Times :
              TaskWrite(c, i, TRUE, now) /\ UNCHANGED ops
        \/ Deliver(c) /\ UNCHANGED ops

SpecProgress == InitProgress /\ [][NextProgress]_vars

\* ---- SpecChecklist: one client works on the checklist of a one-step
\* project (check, uncheck, date, delete) and edits the checklist texts of
\* that step in the project's settings and in the global template, one
\* handler at a time
ChecklistTemplate == <<[id |-> 1, title |-> "S1", defaultChecklist |-> <<"A", "B">>]>>

InitChecklist == OneClient(<<NewProject(1001, ChecklistTemplate)>>, ChecklistTemplate)

NextChecklist ==
    \E c \in Clients :
        \/ \E n \in 1..MaxProjects : Idle(c) /\ OpenProject(c, n) /\ UNCHANGED ops
        \/ Idle(c) /\ Back(c) /\ UNCHANGED ops
        \/ \E index \in 0..(MaxItems - 1), now \in Times :
              Idle(c) /\ CheckboxChange(c, index, now) /\ UNCHANGED ops
        \/ \E index \in 0..(MaxItems - 1), value \in DateTimeInputs :
              Idle(c) /\ SaveDate(c, index, value) /\ UNCHANGED ops
        \/ \E index \in 0..(MaxItems - 1) :
              Idle(c) /\ DeleteChecklistItem(c, index) /\ UNCHANGED ops
        \/ \E isGlobal \in BOOLEAN :
              Idle(c) /\ OpenSettingsModal(c, isGlobal) /\ UNCHANGED ops
        \/ \E index \in 0..(MaxSteps - 1), newChecklist \in ChecklistInputs :
              Idle(c) /\ SaveStepEdit(c, index, "S1", newChecklist) /\ UNCHANGED ops
        \/ Idle(c) /\ CloseSettings(c) /\ UNCHANGED ops
        \/ Idle(c) /\ SaveProjectSettings(c) /\ UNCHANGED ops
        \/ Idle(c) /\ SaveGlobalSettings(c) /\ UNCHANGED ops
        \/ \E i \in 1..MaxInflight, now \in Times :
              TaskRead(c, i, TRUE, now) /\ UNCHANGED ops
        \/ \E i \in 1..MaxInflight, now \in Times :
              TaskWrite(c, i, TRUE, now) /\ UNCHANGED ops
        \/ Deliver(c) /\ UNCHANGED ops

SpecChecklist == InitChecklist /\ [][NextChecklist]_vars

\* ---- SpecSettings: one client edits the global template (titles, checklist
\* texts, steps added and deleted) of a workspace that holds a two-step
\* project, new or with its first step completed and the first item checked
SettingsTemplate ==
    <<[id |-> 1, title |-> "S1", defaultChecklist |-> <<"A", "B">>],
      [id |-> 2, title |-> "S2", defaultChecklist |-> <<>>]>>

\* the project after S1 was completed and its first checklist item checked
WorkedProject(p) ==
    Recalculate([ViewedProject(p) EXCEPT
        !.steps[1] = CompleteStep([@ EXCEPT !.checklist[1] = SetChecked(@, TRUE, 1001)],
                                  "D1", "", 1001)])

InitSettings ==
    \E p \in {NewProject(1001, SettingsTemplate),
               WorkedProject(NewProject(1001, SettingsTemplate))} :
        OneClient(<<p>>, SettingsTemplate)

NextSettings ==
    \E c \in Clients :
        \/ Idle(c) /\ OpenSettingsModal(c, TRUE) /\ UNCHANGED ops
        \/ \E now \in Times :
              Idle(c) /\ TemplateRoom(c, MaxTemplate) /\ AddStepTemplate(c, now)
              /\ UNCHANGED ops
        \/ \E index \in 0..(MaxSteps - 1) :
              Idle(c) /\ DeleteStepTemplate(c, index) /\ UNCHANGED ops
        \/ \E newChecklist \in ChecklistInputs :
              Idle(c) /\ SaveStepEdit(c, 0, "T", newChecklist) /\ UNCHANGED ops
        \/ Idle(c) /\ CloseSettings(c) /\ UNCHANGED ops
        \/ Idle(c) /\ SaveGlobalSettings(c) /\ UNCHANGED ops
        \/ \E i \in 1..MaxInflight, now \in Times :
              TaskRead(c, i, TRUE, now) /\ UNCHANGED ops
        \/ \E i \in 1..MaxInflight, now \in Times :
              TaskWrite(c, i, TRUE, now) /\ UNCHANGED ops
        \/ Deliver(c) /\ UNCHANGED ops

SpecSettings == InitSettings /\ [][NextSettings]_vars

\* ---- SpecCreate: one client creates a project in an empty workspace whose
\* template has one to MaxSteps steps, each with or without checklist texts
CreateTemplates ==
    UNION {{[k \in 1..n |-> [id |-> k, title |-> "S" \o ToString(k),
                             defaultChecklist |-> f[k]]] :
               f \in [1..n -> {<<>>} \cup ChecklistInputs]} : n \in 1..MaxSteps}

InitCreate == \E template \in CreateTemplates : OneClient(<<>>, template)

NextCreate ==
    \E c \in Clients :
        \/ \E now \in Times :
              Idle(c) /\ CreateRoom(MaxProjects) /\ HandleCreateProject(c, now)
              /\ UNCHANGED ops
        \/ \E n \in 1..MaxProjects : Idle(c) /\ OpenProject(c, n) /\ UNCHANGED ops
        \/ Idle(c) /\ Back(c) /\ UNCHANGED ops
        \/ \E i \in 1..MaxInflight, now \in Times :
              TaskRead(c, i, TRUE, now) /\ UNCHANGED ops
        \/ \E i \in 1..MaxInflight, now \in Times :
              TaskWrite(c, i, TRUE, now) /\ UNCHANGED ops
        \/ Deliver(c) /\ UNCHANGED ops

SpecCreate == InitCreate /\ [][NextCreate]_vars

\* ---- SpecAccess: two clients enter the access code of a workspace that
\* does not exist yet or holds a project, create and open projects and check
\* items, while reads and writes may fail
NoDocument == [exists |-> FALSE, projects |-> <<>>, customSteps |-> Undef]

InitAccess ==
    /\ store \in {NoDocument,
                   [exists |-> TRUE,
                    projects |-> <<NewProject(1001, ChecklistTemplate)>>,
                    customSteps |-> Arr(ChecklistTemplate)]}
    /\ app = [c \in Clients |-> NewApp(FALSE, InitTemplate)]
    /\ heap = [c \in Clients |-> <<>>]
    /\ tasks = [c \in Clients |-> <<>>]
    /\ inbox = [c \in Clients |-> <<>>]
    /\ ops = 0

NextAccess ==
    \E c \in Clients :
        \/ ops < MaxAccessOps /\ HandleAccessCodeSubmit(c) /\ ops' = ops + 1
        \/ \E i \in 1..MaxInflight, ok \in BOOLEAN :
              CheckWorkspaceDone(c, i, ok) /\ UNCHANGED ops
        \/ \E i \in 1..MaxInflight, ok \in BOOLEAN :
              CreateWorkspaceDone(c, i, ok) /\ UNCHANGED ops
        \/ \E now \in Times :
              NoMutation(c) /\ ops < MaxAccessOps /\ CreateRoom(MaxProjects)
              /\ HandleCreateProject(c, now) /\ ops' = ops + 1
        \/ \E n \in 1..MaxProjects :
              NoMutation(c) /\ ops < MaxAccessOps /\ OpenProject(c, n) /\ ops' = ops + 1
        \/ \E index \in 0..(MaxItems - 1), now \in Times :
              NoMutation(c) /\ ops < MaxAccessOps /\ CheckboxChange(c, index, now) /\ ops' = ops + 1
        \/ \E i \in 1..MaxInflight, ok \in BOOLEAN, now \in Times :
              TaskRead(c, i, ok, now) /\ UNCHANGED ops
        \/ \E i \in 1..MaxInflight, ok \in BOOLEAN, now \in Times :
              TaskWrite(c, i, ok, now) /\ UNCHANGED ops
        \/ Deliver(c) /\ UNCHANGED ops

SpecAccess == InitAccess /\ [][NextAccess]_vars

\* ---- SpecFail: one client checks items of a one-step project and edits
\* the global template, one handler at a time, while reads and writes may
\* fail
\* the user starts one more handler
FailStep(c) == Idle(c) /\ ops < MaxFailOps /\ ops' = ops + 1

NextFail ==
    \E c \in Clients :
        \/ \E n \in 1..MaxProjects : FailStep(c) /\ OpenProject(c, n)
        \/ FailStep(c) /\ Back(c)
        \/ \E index \in 0..(MaxItems - 1), now \in Times :
              FailStep(c) /\ CheckboxChange(c, index, now)
        \/ FailStep(c) /\ OpenSettingsModal(c, TRUE)
        \/ \E newChecklist \in ChecklistInputs :
              FailStep(c) /\ SaveStepEdit(c, 0, "T", newChecklist)
        \/ FailStep(c) /\ CloseSettings(c)
        \/ FailStep(c) /\ SaveGlobalSettings(c)
        \/ \E i \in 1..MaxInflight, ok \in BOOLEAN, now \in Times :
              TaskRead(c, i, ok, now) /\ UNCHANGED ops
        \/ \E i \in 1..MaxInflight, ok \in BOOLEAN, now \in Times :
              TaskWrite(c, i, ok, now) /\ UNCHANGED ops
        \/ Deliver(c) /\ UNCHANGED ops

SpecFail == InitChecklist /\ [][NextFail]_vars

\* ---- SpecEntries: one client has opened a one-step project whose timeline
\* holds two entries of earlier sessions, and adds, edits and deletes items,
\* timeline entries, postits and item notes, one handler at a time
EntriesTemplate == <<[id |-> 1, title |-> "S1", defaultChecklist |-> <<"A">>]>>

EntriesProject ==
    LET p == ViewedProject(NewProject(1001, EntriesTemplate)) IN
    [p EXCEPT !.steps[1].timeline = Arr(<<[text |-> "x", timestamp |-> ISO(1000)],
                                          [text |-> "y", timestamp |-> ISO(1001)]>>)]

InitEntries ==
    /\ store = [exists |-> TRUE, projects |-> <<EntriesProject>>,
                customSteps |-> Arr(EntriesTemplate)]
    /\ app = [c \in Clients |->
                 IF c = "A" THEN Opened(EntriesProject, EntriesTemplate).a
                 ELSE NewApp(FALSE, EntriesTemplate)]
    /\ heap = [c \in Clients |->
                  IF c = "A" THEN Opened(EntriesProject, EntriesTemplate).h ELSE <<>>]
    /\ tasks = [c \in Clients |-> <<>>]
    /\ inbox = [c \in Clients |-> <<>>]
    /\ ops = 0

\* the user starts one more handler
UserStep(c) == Idle(c) /\ ops < MaxEntryOps /\ ops' = ops + 1

NextEntries ==
    \E c \in Clients :
        \/ \E typed \in TextInputs, deadline \in DateTimeInputs, now \in Times :
              UserStep(c) /\ AddChecklistItem(c, typed, deadline, now)
        \/ \E typed \in TextInputs, now \in Times :
              UserStep(c) /\ AddTimelineEntry(c, typed, now)
        \/ \E typed \in TextInputs, now \in Times :
              UserStep(c) /\ AddPostit(c, typed, now)
        \/ \E index \in 0..(MaxItems - 1), typed \in TextInputs, now \in Times :
              UserStep(c) /\ SaveItemNote(c, index, typed, now)
        \/ \E index \in 0..(MaxEntries - 1), typed \in TextInputs :
              UserStep(c) /\ SaveTimelineEdit(c, index, typed)
        \/ \E index \in 0..(MaxEntries - 1), typed \in TextInputs :
              UserStep(c) /\ SavePostitEdit(c, index, typed)
        \/ \E index \in 0..(MaxEntries - 1) :
              UserStep(c) /\ DeleteTimelineNote(c, index)
        \/ \E index \in 0..(MaxEntries - 1) :
              UserStep(c) /\ DeletePostit(c, index)
        \/ \E i \in 1..MaxInflight, now \in Times :
              TaskRead(c, i, TRUE, now) /\ UNCHANGED ops
        \/ \E i \in 1..MaxInflight, now \in Times :
              TaskWrite(c, i, TRUE, now) /\ UNCHANGED ops
        \/ Deliver(c) /\ UNCHANGED ops

SpecEntries == InitEntries /\ [][NextEntries]_vars

\* ---- SpecStore: two clients of a workspace that holds one project add
\* projects, open them and delete them; reads and writes of the store may
\* fail
StoreTemplate == <<[id |-> 1, title |-> "S1", defaultChecklist |-> <<>>]>>

InitStore ==
    /\ store = [exists |-> TRUE, projects |-> <<NewProject(1000, StoreTemplate)>>,
                customSteps |-> Arr(StoreTemplate)]
    /\ app = [c \in Clients |-> NewApp(TRUE, StoreTemplate)]
    /\ heap = [c \in Clients |-> <<>>]
    /\ tasks = [c \in Clients |-> <<>>]
    /\ inbox = [c \in Clients |-> <<>>]
    /\ ops = 0

\* a user starts one more handler
StoreStep(c) == Idle(c) /\ ops < MaxStoreOps /\ ops' = ops + 1

NextStore ==
    \E c \in Clients :
        \/ \E now \in Times :
              StoreStep(c) /\ CreateRoom(MaxStored) /\ HandleCreateProject(c, now)
        \/ \E n \in 1..MaxStored : StoreStep(c) /\ OpenProject(c, n)
        \/ StoreStep(c) /\ HandleDeleteProject(c)
        \/ \E i \in 1..MaxInflight, ok \in BOOLEAN, now \in Times :
              TaskRead(c, i, ok, now) /\ UNCHANGED ops
        \/ \E i \in 1..MaxInflight, ok \in BOOLEAN, now \in Times :
              TaskWrite(c, i, ok, now) /\ UNCHANGED ops
        \/ Deliver(c) /\ UNCHANGED ops

SpecStore == InitStore /\ [][NextStore]_vars

\* ---- SpecPair: the workspace holds two projects; client A has opened the
\* first and client B the second, and each works on the checklist of its
\* project while the other does the same
PairProject(now) == ViewedProject(NewProject(now, EntriesTemplate))

InitPair ==
    /\ store = [exists |-> TRUE, projects |-> <<PairProject(1000), PairProject(999)>>,
                customSteps |-> Arr(EntriesTemplate)]
    /\ app = [c \in Clients |->
                 Opened(PairProject(IF c = "A" THEN 1000 ELSE 999), EntriesTemplate).a]
    /\ heap = [c \in Clients |->
                  Opened(PairProject(IF c = "A" THEN 1000 ELSE 999), EntriesTemplate).h]
    /\ tasks = [c \in Clients |-> <<>>]
    /\ inbox = [c \in Clients |-> <<>>]
    /\ ops = 0

NextPair ==
    \E c \in Clients :
        \/ \E index \in 0..(MaxItems - 1), now \in Times :
              /\ Idle(c) /\ ops < MaxOps /\ ops' = ops + 1
              /\ CheckboxChange(c, index, now)
        \/ \E i \in 1..MaxInflight, now \in Times :
              TaskRead(c, i, TRUE, now) /\ UNCHANGED ops
        \/ \E i \in 1..MaxInflight, now \in Times :
              TaskWrite(c, i, TRUE, now) /\ UNCHANGED ops
        \/ Deliver(c) /\ UNCHANGED ops

SpecPair == InitPair /\ [][NextPair]_vars

\* ---- SpecStale: two clients have opened the same one-step project, which
\* holds a postit, and client A has opened the completion dialog; they
\* complete the step, toggle the checklist item and delete the postit while
\* the other client's snapshots come in
StaleProject ==
    LET p == ViewedProject(NewProject(1000, EntriesTemplate)) IN
    [p EXCEPT !.steps[1].postits = Arr(<<[text |-> "p", timestamp |-> ISO(1000)]>>)]

InitStale ==
    /\ store = [exists |-> TRUE, projects |-> <<StaleProject>>,
                customSteps |-> Arr(EntriesTemplate)]
    /\ app = [c \in Clients |->
                 LET o == Opened(StaleProject, EntriesTemplate) IN
                 IF c = "A" THEN ToggleStepCompletion(o.a, o.h, <<>>).a ELSE o.a]
    /\ heap = [c \in Clients |-> Opened(StaleProject, EntriesTemplate).h]
    /\ tasks = [c \in Clients |-> <<>>]
    /\ inbox = [c \in Clients |-> <<>>]
    /\ ops = 0

\* a user whose last mutation has been answered starts one more handler
StaleStep(c) == NoMutation(c) /\ ops < MaxStaleOps /\ ops' = ops + 1

NextStale ==
    \E c \in Clients :
        \/ StaleStep(c) /\ ToggleButton(c)
        \/ \E now \in Times :
              StaleStep(c) /\ ConfirmStepComplete(c, "D1", "2026-01-01", now)
        \/ \E index \in 0..(MaxItems - 1), now \in Times :
              StaleStep(c) /\ CheckboxChange(c, index, now)
        \/ \E index \in 0..(MaxEntries - 1) : StaleStep(c) /\ DeletePostit(c, index)
        \/ \E i \in 1..MaxInflight, now \in Times :
              TaskRead(c, i, TRUE, now) /\ UNCHANGED ops
        \/ \E i \in 1..MaxInflight, now \in Times :
              TaskWrite(c, i, TRUE, now) /\ UNCHANGED ops
        \/ Deliver(c) /\ UNCHANGED ops

SpecStale == InitStale /\ [][NextStale]_vars

\* ---- SpecMigrate: client A still has a project of the local-storage
\* version; the workspace of the code does not exist or holds one project;
\* the clients migrate or enter the code and open the project
LegacyLocal == <<NewProject(999, ChecklistTemplate)>>

InitMigrate ==
    /\ store \in {NoDocument,
                   [exists |-> TRUE,
                    projects |-> <<NewProject(1001, ChecklistTemplate)>>,
                    customSteps |-> Arr(ChecklistTemplate)]}
    /\ app = [c \in Clients |->
                 [NewApp(FALSE, InitTemplate) EXCEPT
                     !.localProjects = IF c = "A" THEN Arr(LegacyLocal) ELSE Undef]]
    /\ heap = [c \in Clients |-> <<>>]
    /\ tasks = [c \in Clients |-> <<>>]
    /\ inbox = [c \in Clients |-> <<>>]
    /\ ops = 0

NextMigrate ==
    \E c \in Clients :
        \/ ops < MaxAccessOps /\ HandleMigration(c) /\ ops' = ops + 1
        \/ \E i \in 1..MaxInflight, ok \in BOOLEAN :
              MigrationWriteDone(c, i, ok) /\ UNCHANGED ops
        \/ ops < MaxAccessOps /\ HandleAccessCodeSubmit(c) /\ ops' = ops + 1
        \/ \E i \in 1..MaxInflight, ok \in BOOLEAN :
              CheckWorkspaceDone(c, i, ok) /\ UNCHANGED ops
        \/ \E i \in 1..MaxInflight, ok \in BOOLEAN :
              CreateWorkspaceDone(c, i, ok) /\ UNCHANGED ops
        \/ \E n \in 1..MaxProjects :
              NoMutation(c) /\ ops < MaxAccessOps /\ OpenProject(c, n) /\ ops' = ops + 1
        \/ \E i \in 1..MaxInflight, ok \in BOOLEAN, now \in Times :
              TaskRead(c, i, ok, now) /\ UNCHANGED ops
        \/ Deliver(c) /\ UNCHANGED ops

SpecMigrate == InitMigrate /\ [][NextMigrate]_vars

\* ---- SpecGone: the workspace holds two projects and both clients have
\* opened the first; each may delete it or tick its checklist while the
\* other does the same, and a read may fail
InitGone ==
    /\ store = [exists |-> TRUE, projects |-> <<PairProject(1000), PairProject(999)>>,
                customSteps |-> Arr(EntriesTemplate)]
    /\ app = [c \in Clients |-> Opened(PairProject(1000), EntriesTemplate).a]
    /\ heap = [c \in Clients |-> Opened(PairProject(1000), EntriesTemplate).h]
    /\ tasks = [c \in Clients |-> <<>>]
    /\ inbox = [c \in Clients |-> <<>>]
    /\ ops = 0

GoneStep(c) == Idle(c) /\ ops < MaxGoneOps /\ ops' = ops + 1

NextGone ==
    \E c \in Clients :
        \/ GoneStep(c) /\ HandleDeleteProject(c)
        \/ \E index \in 0..(MaxItems - 1), now \in Times :
              GoneStep(c) /\ CheckboxChange(c, index, now)
        \/ \E i \in 1..MaxInflight, ok \in BOOLEAN, now \in Times :
              TaskRead(c, i, ok, now) /\ UNCHANGED ops
        \/ \E i \in 1..MaxInflight, now \in Times :
              TaskWrite(c, i, TRUE, now) /\ UNCHANGED ops
        \/ Deliver(c) /\ UNCHANGED ops

SpecGone == InitGone /\ [][NextGone]_vars

\* ---- SpecConverge: both clients have opened the first project and tick its
\* checklist a bounded number of times; a write may fail. The store answers
\* every read and every write, and every snapshot is delivered: the SDK's
\* promises settle and its listener is called for every change
ReadAnswered(c) ==
    \E i \in 1..MaxInflight, now \in Times : TaskRead(c, i, TRUE, now) /\ UNCHANGED ops

WriteAnswered(c) ==
    \E i \in 1..MaxInflight, ok \in BOOLEAN, now \in Times :
        TaskWrite(c, i, ok, now) /\ UNCHANGED ops

SnapshotDelivered(c) == Deliver(c) /\ UNCHANGED ops

NextConverge ==
    \E c \in Clients :
        \/ \E index \in 0..(MaxItems - 1), now \in Times :
              GoneStep(c) /\ CheckboxChange(c, index, now)
        \/ ReadAnswered(c)
        \/ WriteAnswered(c)
        \/ SnapshotDelivered(c)

Settles(c) ==
    /\ WF_vars(ReadAnswered(c))
    /\ WF_vars(WriteAnswered(c))
    /\ WF_vars(SnapshotDelivered(c))

SpecConverge == InitGone /\ [][NextConverge]_vars /\ \A c \in Clients : Settles(c)

\* ------------------------------------------------------------- properties
\* the steps' completed flags, in order
Flags(steps) == [k \in 1..Len(steps) |-> steps[k].completed]

\* currentStepIndex is the smallest index of an incomplete step, or the last
\* index when no step is incomplete
PointsAtFirstIncomplete(p) ==
    IF \E k \in 1..Len(p.steps) : ~p.steps[k].completed
    THEN /\ p.currentStepIndex \in 0..(Len(p.steps) - 1)
         /\ ~p.steps[p.currentStepIndex + 1].completed
         /\ \A k \in 1..p.currentStepIndex : p.steps[k].completed
    ELSE p.currentStepIndex = Len(p.steps) - 1

\* in this step client c has run _saveAndRefreshStep up to its await
StartedToggle(c) ==
    /\ Len(tasks'[c]) = Len(tasks[c]) + 1
    /\ tasks'[c][Len(tasks'[c])].kind = "toggle"

\* in this step a write of client c reached the store
Wrote(c) ==
    /\ tasks'[c] # tasks[c]
    /\ Len(inbox'[c]) > Len(inbox[c])

\* the document a suspended handler of client c is about to write
Writing(c) ==
    tasks[c][CHOOSE i \in 1..Len(tasks[c]) : tasks[c][i].pc = "write"].data

\* C1 (as claimed, for projects that have a step): every stored project has
\* status 'completed' if and only if every one of its steps is completed.
C1_StatusIffAllComplete ==
    \A n \in 1..Len(store.projects) :
        LET p == store.projects[n] IN
        Len(p.steps) >= 1 =>
            (p.status = "completed" <=> \A k \in 1..Len(p.steps) : p.steps[k].completed)

\* C2: when a step has just been completed or reverted and the pointer
\* recalculated, the active project's currentStepIndex is the smallest index
\* of an incomplete step, or steps.length - 1 when none is incomplete.
C2_PointerAfterToggle ==
    [][\A c \in Clients :
          StartedToggle(c) =>
              LET p == heap'[c][app'[c].activeProject] IN
              Len(p.steps) >= 1 => PointsAtFirstIncomplete(p)]_vars

C2_Witness ==
    \E c \in Clients :
        /\ tasks[c] # <<>> /\ tasks[c][1].kind = "toggle" /\ tasks[c][1].pc = "read"
        /\ LET p == heap[c][tasks[c][1].obj] IN
           /\ Len(p.steps) = 2
           /\ p.steps[1].completed /\ ~p.steps[2].completed
           /\ p.currentStepIndex = 1
           /\ tasks[c][1].stepIndex = 0

\* C3 (as claimed, for projects that have a step): every stored project's
\* currentStepIndex points at its first incomplete step, or at its last step
\* when all steps are complete.
C3_PointerAlwaysFirstIncomplete ==
    \A n \in 1..Len(store.projects) :
        Len(store.projects[n].steps) >= 1 => PointsAtFirstIncomplete(store.projects[n])

\* C4: when a client's write reaches the store while the stored project has
\* S1 complete and the copy the client writes has S1 incomplete and S2
\* complete, the stored project becomes exactly the writer's step array: S2
\* complete, S1 incomplete.
C4_StaleWriterWins ==
    [][\A c \in Clients :
          (/\ Wrote(c)
           /\ store.projects[1].steps[1].completed
           /\ ~Writing(c).projects[1].steps[1].completed
           /\ Writing(c).projects[1].steps[2].completed)
          => /\ store'.projects[1].steps = Writing(c).projects[1].steps
             /\ ~store'.projects[1].steps[1].completed
             /\ store'.projects[1].steps[2].completed]_vars

\* A persisted S1 and still shows it, with nothing under way; the store,
\* just written by the other client, has S2 complete and S1 incomplete
C4_Witness ==
    \E c \in Clients :
        /\ tasks[c] = <<>> /\ app[c].activeProject # 0
        /\ Flags(heap[c][app[c].activeProject].steps) = <<TRUE, FALSE>>
        /\ Flags(store.projects[1].steps) = <<FALSE, TRUE>>
        /\ inbox[c] = <<store>>

\* C5: a snapshot delivered while a mutation of the active project is
\* suspended replaces the in-memory project by the snapshot's; and when the
\* suspended write then completes, a completion that the snapshot brought
\* and the store holds, but the written copy lacks, is gone from the store.
C5_SnapshotDuringWrite ==
    [][\A c \in Clients :
          /\ (/\ inbox[c] # <<>> /\ inbox'[c] = Tail(inbox[c])
              /\ app[c].activeProject # 0
              /\ \E i \in 1..Len(tasks[c]) : tasks[c][i].kind = "toggle")
             => heap'[c][app'[c].activeProject] = Head(inbox[c]).projects[1]
          /\ \A k \in 1..2 :
               (/\ Wrote(c)
                /\ app[c].activeProject # 0
                /\ heap[c][app[c].activeProject].steps[k].completed
                /\ store.projects[1].steps[k].completed
                /\ ~Writing(c).projects[1].steps[k].completed)
               => ~store'.projects[1].steps[k].completed]_vars

\* client c's write has just reached the store; the project c holds in memory
\* came with a snapshot and shows the other client's completion of step k,
\* which the other client still shows too, but the store has lost it
C5_Witness ==
    \E c \in Clients, k \in 1..2 :
        /\ inbox[c] = <<store>>
        /\ app[c].activeProject # 0
        /\ heap[c][app[c].activeProject].steps[k].completed
        /\ ~heap[c][app[c].activeProject].steps[3 - k].completed
        /\ ~store.projects[1].steps[k].completed
        /\ store.projects[1].steps[3 - k].completed
        /\ \A d \in Clients \ {c} :
              /\ app[d].activeProject # 0
              /\ tasks[d] = <<>>
              /\ Flags(heap[d][app[d].activeProject].steps) =
                    Flags(heap[c][app[c].activeProject].steps)

\* C6: for every project with at least one step the progress percentage is
\* within 0..100; completing an incomplete step does not lower it and
\* reverting a completed step does not raise it.
C6_ProgressBoundedMonotone ==
    /\ [](\A n \in 1..Len(store.projects) :
             Len(store.projects[n].steps) >= 1 =>
                 ProgressPercent(store.projects[n].steps) \in 0..100)
    /\ [][\A c \in Clients :
             (StartedToggle(c) /\ app[c].activeProject # 0) =>
                 LET before == heap[c][app[c].activeProject].steps
                     after == heap'[c][app'[c].activeProject].steps
                     k == tasks'[c][Len(tasks'[c])].stepIndex + 1
                 IN  (Len(before) >= 1 /\ Len(after) = Len(before) /\ k <= Len(after)) =>
                        /\ ProgressPercent(after) \in 0..100
                        /\ (~before[k].completed /\ after[k].completed)
                              => ProgressPercent(after) >= ProgressPercent(before)
                        /\ (before[k].completed /\ ~after[k].completed)
                              => ProgressPercent(after) <= ProgressPercent(before)]_vars

\* a step of a project of five steps, three of which were complete, has
\* just been reverted, leaving 40 percent
C6_Witness ==
    \E c \in Clients :
        /\ tasks[c] # <<>> /\ tasks[c][1].kind = "toggle" /\ tasks[c][1].pc = "read"
        /\ LET steps == heap[c][tasks[c][1].obj].steps IN
           /\ Len(steps) = 5
           /\ ~steps[tasks[c][1].stepIndex + 1].completed
           /\ ProgressPercent(store.projects[1].steps) = 60
           /\ ProgressPercent(steps) = 40

\* C7 (as claimed): every stored project has at least one step.
C7_NeverZeroSteps ==
    \A n \in 1..Len(store.projects) : Len(store.projects[n].steps) >= 1

\* C8: in a project with steps S1, S2, S3: completing S1 with nothing
\* complete gives currentStepIndex 1, status active, progress 33; completing
\* S3 with only S1 complete leaves currentStepIndex 1, progress 67;
\* completing S2 with S1 and S3 complete gives currentStepIndex 2, status
\* completed, progress 100.
C8_ThreeStepScenario ==
    [][\A c \in Clients :
          (StartedToggle(c) /\ app[c].activeProject # 0) =>
              LET before == heap[c][app[c].activeProject]
                  after == heap'[c][app'[c].activeProject]
                  k == tasks'[c][Len(tasks'[c])].stepIndex
              IN  Len(after.steps) = 3 =>
                    /\ (Flags(before.steps) = <<FALSE, FALSE, FALSE>> /\ k = 0
                        /\ after.steps[1].completed)
                       => /\ after.currentStepIndex = 1
                          /\ after.status = "active"
                          /\ ProgressPercent(after.steps) = 33
                    /\ (Flags(before.steps) = <<TRUE, FALSE, FALSE>> /\ k = 2
                        /\ after.steps[3].completed)
                       => /\ after.currentStepIndex = 1
                          /\ after.status = "active"
                          /\ ProgressPercent(after.steps) = 67
                    /\ (Flags(before.steps) = <<TRUE, FALSE, TRUE>> /\ k = 1
                        /\ after.steps[2].completed)
                       => /\ after.currentStepIndex = 2
                          /\ after.status = "completed"
                          /\ ProgressPercent(after.steps) = 100]_vars

\* S2 has just been completed as the last of the three steps
C8_Witness ==
    \E c \in Clients :
        /\ tasks[c] # <<>> /\ tasks[c][1].kind = "toggle" /\ tasks[c][1].pc = "read"
        /\ tasks[c][1].stepIndex = 1
        /\ LET p == heap[c][tasks[c][1].obj] IN
           /\ Flags(p.steps) = <<TRUE, TRUE, TRUE>>
           /\ p.currentStepIndex = 2 /\ p.status = "completed"
           /\ ProgressPercent(p.steps) = 100

\* C9: reverting S3 of a three-step project whose steps are all complete and
\* whose status is completed yields currentStepIndex 2, status active,
\* progress 67, and S3 with completed false, completedAt null and
\* documentNumber null.
C9_RevertLastStep ==
    [][\A c \in Clients :
          (StartedToggle(c) /\ app[c].activeProject # 0) =>
              LET before == heap[c][app[c].activeProject]
                  after == heap'[c][app'[c].activeProject]
                  k == tasks'[c][Len(tasks'[c])].stepIndex
              IN  (/\ Flags(before.steps) = <<TRUE, TRUE, TRUE>>
                   /\ before.status = "completed"
                   /\ k = 2)
                  => /\ after.currentStepIndex = 2
                     /\ after.status = "active"
                     /\ ProgressPercent(after.steps) = 67
                     /\ after.steps[3].completed = FALSE
                     /\ after.steps[3].completedAt = Null
                     /\ after.steps[3].documentNumber = Null]_vars

\* S3, completed with a document number before, has just been reverted
C9_Witness ==
    \E c \in Clients :
        /\ tasks[c] # <<>> /\ tasks[c][1].kind = "toggle" /\ tasks[c][1].pc = "read"
        /\ tasks[c][1].stepIndex = 2
        /\ LET p == heap[c][tasks[c][1].obj] IN
           /\ Flags(p.steps) = <<TRUE, TRUE, FALSE>>
           /\ p.steps[3].documentNumber = Null
           /\ p.status = "active" /\ p.currentStepIndex = 2
           /\ store.projects[1].steps[3].documentNumber = "D1"

\* C10: the step a client has loaded is a fixed point of the migration:
\* running it again, at any time, leaves timeline and postits as they are,
\* so a repeated load adds no entry.
C10_MigrationIdempotent ==
    \A c \in Clients :
        app[c].domObj # 0 =>
            LET stepData == heap[c][app[c].domObj].steps[app[c].domIndex + 1] IN
            \A now \in Times :
                /\ MigrateStepNotes(stepData, now).timeline = stepData.timeline
                /\ MigrateStepNotes(stepData, now).postits = stepData.postits

\* a step stored with a timeline entry and a post-it in notes was migrated
\* and saved, and has been loaded again from what was saved
C10_Witness ==
    \E c \in Clients :
        /\ app[c].domObj # 0
        /\ tasks[c] = <<>> /\ inbox[c] = <<>>
        /\ heap[c][app[c].domObj].steps[1] = store.projects[1].steps[1]
        /\ store.projects[1].steps[1].notes.t = "arr"
        /\ Len(store.projects[1].steps[1].notes.a) = 2
        /\ store.projects[1].steps[1].timeline.t = "arr"
        /\ Len(store.projects[1].steps[1].timeline.a) = 1
        /\ Len(store.projects[1].steps[1].postits.a) = 1

\* the entries of notes array a whose type is in ok, in their order in a
Kept(a, ok) ==
    LET idx == {i \in 1..Len(a) : a[i].type \in ok} IN
    [k \in 1..Cardinality(idx) |->
        a[CHOOSE i \in idx : Cardinality({j \in idx : j < i}) = k - 1]]

\* C11: for the step a client has loaded from the stored step: a stored
\* non-empty string gives a notes array of exactly one timeline entry with
\* that text, an empty string gives none; a missing timeline becomes the
\* notes entries with no type or type 'timeline' in their order, a missing
\* postits those with type 'postit'; a stored timeline or postits is kept.
C11_MigrationResult ==
    \A c \in Clients :
        app[c].domObj # 0 =>
            LET stepData == heap[c][app[c].domObj].steps[app[c].domIndex + 1]
                stored == store.projects[1].steps[1]
                notes == IF stored.notes.t = "arr" THEN stored.notes.a
                         ELSE IF stored.notes.t = "str" THEN stepData.notes.a
                         ELSE <<>>
            IN  /\ stored.notes.t = "str" =>
                     /\ stepData.notes.t = "arr"
                     /\ IF stored.notes.s = "" THEN stepData.notes.a = <<>>
                        ELSE /\ Len(stepData.notes.a) = 1
                             /\ stepData.notes.a[1].text = stored.notes.s
                             /\ stepData.notes.a[1].type = "timeline"
                             /\ \E now \in Times : stepData.notes.a[1].timestamp = ISO(now)
                /\ stepData.timeline =
                      IF stored.timeline.t = "undef"
                      THEN Arr(Kept(notes, {Absent, "timeline"})) ELSE stored.timeline
                /\ stepData.postits =
                      IF stored.postits.t = "undef"
                      THEN Arr(Kept(notes, {"postit"})) ELSE stored.postits

\* a step stored with the string "memo" and a post-it list, but no timeline,
\* has been loaded
C11_Witness ==
    \E c \in Clients :
        /\ app[c].domObj # 0
        /\ store.projects[1].steps[1].notes = Str("memo")
        /\ store.projects[1].steps[1].timeline = Undef
        /\ store.projects[1].steps[1].postits.t = "arr"
        /\ Len(heap[c][app[c].domObj].steps[1].timeline.a) = 1
        /\ heap[c][app[c].domObj].steps[1].timeline.a[1].text = "memo"

\* in this step client c has run a handler of the given kind up to its await
Started(c, kind) ==
    /\ Len(tasks'[c]) = Len(tasks[c]) + 1
    /\ tasks'[c][Len(tasks'[c])].kind = kind

\* the dates a manual date edit can leave in an item
ManualDates == {LocalISO(value) : value \in DateTimeInputs \ {""}}

\* the stamps the checkbox handler can leave in an item
Stamps == {ISO(now) : now \in Times}

\* C16: when a checkbox changes, an item that becomes checked and whose
\* completedAt was null gets a non-null timestamp (the clock reading), and an
\* item that becomes unchecked gets completedAt null.
C16_CheckStampsUncheckClears ==
    [][\A c \in Clients :
          Started(c, "check") =>
              LET before == RenderedItems(c)
                  after == RenderedItems(c)'
              IN  /\ Len(after) = Len(before)
                  /\ \A k \in 1..Len(before) :
                        /\ (~before[k].checked /\ after[k].checked
                            /\ before[k].completedAt = Null)
                           => after[k].completedAt \in Stamps
                        /\ (before[k].checked /\ ~after[k].checked)
                           => after[k].completedAt = Null]_vars

\* the first item, stored as checked with the stamp of its checking, has
\* just been unchecked and holds no date
C16_Witness ==
    \E c \in Clients :
        /\ tasks[c] # <<>> /\ tasks[c][1].kind = "check" /\ tasks[c][1].pc = "read"
        /\ Len(RenderedItems(c)) >= 1 /\ Len(store.projects[1].steps[1].checklist) >= 1
        /\ store.projects[1].steps[1].checklist[1].checked
        /\ store.projects[1].steps[1].checklist[1].completedAt \in Stamps
        /\ ~RenderedItems(c)[1].checked
        /\ RenderedItems(c)[1].completedAt = Null

\* C17: a manual date edit changes no item's checked flag or text (so a date
\* can be set on an unchecked item), and an item that becomes checked while
\* it holds a date keeps that date.
C17_ManualDateOnlyDate ==
    [][\A c \in Clients :
          LET before == RenderedItems(c)
              after == RenderedItems(c)'
          IN  /\ Started(c, "date") =>
                    /\ Len(after) = Len(before)
                    /\ \A k \in 1..Len(before) :
                          /\ after[k].checked = before[k].checked
                          /\ after[k].text = before[k].text
              /\ Started(c, "check") =>
                    \A k \in 1..Len(before) :
                        (~before[k].checked /\ after[k].checked
                         /\ before[k].completedAt \notin {Null, Absent})
                        => after[k].completedAt = before[k].completedAt]_vars

\* the first item was stored unchecked with a manually set date; it has just
\* been checked and still holds that date
C17_Witness ==
    \E c \in Clients :
        /\ tasks[c] # <<>> /\ tasks[c][1].kind = "check" /\ tasks[c][1].pc = "read"
        /\ Len(RenderedItems(c)) >= 1 /\ Len(store.projects[1].steps[1].checklist) >= 1
        /\ ~store.projects[1].steps[1].checklist[1].checked
        /\ store.projects[1].steps[1].checklist[1].completedAt \in ManualDates
        /\ RenderedItems(c)[1].checked
        /\ RenderedItems(c)[1].completedAt = store.projects[1].steps[1].checklist[1].completedAt

\* C18 (as claimed): when a checkbox changes, an item that becomes unchecked
\* and whose completedAt was set by a manual date edit keeps that date.
C18_ManualDateSurvivesUncheck ==
    [][\A c \in Clients :
          Started(c, "check") =>
              LET before == RenderedItems(c)
                  after == RenderedItems(c)'
              IN  \A k \in 1..Len(before) :
                      (before[k].checked /\ ~after[k].checked
                       /\ before[k].completedAt \in ManualDates)
                      => after[k].completedAt = before[k].completedAt]_vars

\* result has one item per text, in the order of texts, each checked exactly
\* when some item of existing with the same text is checked
RebuiltAsClaimed(result, texts, existing) ==
    /\ Len(result) = Len(texts)
    /\ \A k \in 1..Len(texts) :
          /\ result[k].text = texts[k]
          /\ result[k].checked <=>
                \E j \in 1..Len(existing) :
                    existing[j].text = texts[k] /\ existing[j].checked

\* C12 (as claimed): a template save rebuilds a step's checklist as one item
\* per new default text, in the new order, an item being checked iff an
\* existing item with the same text was checked: for the step of the active
\* project on a project-specific save, and for the step of the stored
\* project when the write of a global save reaches the store.
C12_ChecklistRebuild ==
    [][\A c \in Clients :
          /\ (Started(c, "projSave") /\ Len(app[c].tempStepsTemplate) = 1) =>
                RebuiltAsClaimed(heap'[c][app'[c].activeProject].steps[1].checklist,
                                 app[c].tempStepsTemplate[1].defaultChecklist,
                                 heap[c][app[c].activeProject].steps[1].checklist)
          /\ (Wrote(c) /\ Writing(c).customSteps.t = "arr"
              /\ Len(Writing(c).customSteps.a) = 1) =>
                \A n \in 1..Len(store.projects) :
                    Len(store.projects[n].steps) = 1 =>
                        RebuiltAsClaimed(store'.projects[n].steps[1].checklist,
                                         Writing(c).customSteps.a[1].defaultChecklist,
                                         store.projects[n].steps[1].checklist)]_vars

\* C14 (as claimed): after a project-specific template save the active
\* project's currentStepIndex is a valid index into its new steps; a pointer
\* that was at or beyond the new length is the last valid index.
C14_PointerValidAfterSave ==
    [][\A c \in Clients :
          Started(c, "projSave") =>
              LET before == heap[c][app[c].activeProject]
                  after == heap'[c][app'[c].activeProject]
              IN  /\ after.currentStepIndex \in 0..(Len(after.steps) - 1)
                  /\ before.currentStepIndex >= Len(after.steps)
                        => after.currentStepIndex = Len(after.steps) - 1]_vars

\* the texts of a checklist, in order
Texts(checklist) == [k \in 1..Len(checklist) |-> checklist[k].text]

\* C13: when the write of a global template save reaches the store, every
\* stored project whose step count differs from the new template's length is
\* unchanged, and every project with the same step count has, position by
\* position, the template's titles and checklist texts.
C13_GlobalSaveFrame ==
    [][\A c \in Clients :
          (Wrote(c) /\ Writing(c).customSteps.t = "arr") =>
              LET template == Writing(c).customSteps.a IN
              /\ Len(store'.projects) = Len(store.projects)
              /\ \A n \in 1..Len(store.projects) :
                    LET p == store.projects[n]
                        q == store'.projects[n]
                    IN  IF Len(p.steps) # Len(template) THEN q = p
                        ELSE /\ Len(q.steps) = Len(template)
                             /\ \A k \in 1..Len(template) :
                                   /\ q.steps[k].title = template[k].title
                                   /\ Texts(q.steps[k].checklist) =
                                         template[k].defaultChecklist]_vars

\* a global save has just stored a one-step template titled T; the stored
\* project still has its two steps S1 (completed, first item checked) and S2
C13_Witness ==
    \E c \in Clients :
        /\ inbox[c] = <<store>>
        /\ store.customSteps = Arr(<<[id |-> 2, title |-> "T", defaultChecklist |-> <<"A", "C">>]>>)
        /\ store.projects = <<WorkedProject(NewProject(1001, SettingsTemplate))>>

\* C15: the project handed to addProject by handleCreateProject has status
\* 'active', currentStepIndex 0 and one step per entry of the template, in
\* the template's order; every step is incomplete with completedAt null and
\* its checklist has one unchecked item per default text, in order.
C15_NewProjectShape ==
    [][\A c \in Clients :
          Started(c, "create") =>
              LET p == heap'[c][tasks'[c][Len(tasks'[c])].obj]
                  template == app[c].stepsTemplate
              IN  /\ p.status = "active"
                  /\ p.currentStepIndex = 0
                  /\ Len(p.steps) = Len(template)
                  /\ \A k \in 1..Len(template) :
                        /\ p.steps[k].title = template[k].title
                        /\ ~p.steps[k].completed
                        /\ p.steps[k].completedAt = Null
                        /\ Texts(p.steps[k].checklist) = template[k].defaultChecklist
                        /\ \A j \in 1..Len(p.steps[k].checklist) :
                              ~p.steps[k].checklist[j].checked]_vars

\* a project of three steps has just been created from a template whose
\* second step has the default texts A, C and whose third has none
C15_Witness ==
    \E c \in Clients :
        /\ tasks[c] # <<>> /\ tasks[c][1].kind = "create" /\ tasks[c][1].pc = "read"
        /\ LET p == heap[c][tasks[c][1].obj] IN
           /\ Len(p.steps) = 3
           /\ Texts(p.steps[2].checklist) = <<"A", "C">>
           /\ p.steps[3].checklist = <<>>
           /\ app[c].stepsTemplate[2].defaultChecklist = <<"A", "C">>

\* C19: when checkWorkspace fails during handleAccessCodeSubmit, the failure
\* reaches the handler, which ends: the document is not written, no write is
\* left pending and no snapshot listener is registered.
C19_CheckFailureStopsSubmit ==
    [][\A c \in Clients, i \in 1..MaxInflight :
          CheckWorkspaceDone(c, i, FALSE) =>
              /\ store' = store
              /\ inbox' = inbox
              /\ ~app'[c].listening
              /\ \A j \in 1..Len(tasks'[c]) : tasks'[c][j].kind # "access"]_vars

\* one access code was submitted and the handler has ended, yet nobody
\* listens and there is still no document: the check had failed
C19_Witness ==
    /\ ops = 1
    /\ ~store.exists
    /\ \A c \in Clients : ~app[c].listening /\ tasks[c] = <<>>

\* the calls of updateProject that a handler suspends on
UpdateKinds == {"toggle", "projSave", "check", "date", "deleteItem",
                "addItem", "itemNote", "addTimeline", "editTimeline",
                "deleteTimeline", "addPostit", "editPostit", "deletePostit"}

\* C20: a handler whose read fails, and a handler whose read finds no
\* document, both go on as with an empty projects list: addProject writes
\* the new project alone, updateProject finds no entry and writes nothing,
\* openProjectDetail finds no project and leaves the view as it is.
C20_FailedReadLooksEmpty ==
    [][\A c \in Clients, i \in 1..MaxInflight, now \in Times :
          (\/ TaskRead(c, i, FALSE, now)
           \/ ~store.exists /\ TaskRead(c, i, TRUE, now)) =>
              LET t == tasks[c][i] IN
              /\ t.kind = "create" =>
                    /\ Len(tasks'[c]) = Len(tasks[c])
                    /\ tasks'[c][i].pc = "write"
                    /\ tasks'[c][i].data.projects = <<heap[c][t.obj]>>
              /\ t.kind \in UpdateKinds => Len(tasks'[c]) = Len(tasks[c]) - 1
              /\ t.kind = "open" =>
                    /\ Len(tasks'[c]) = Len(tasks[c]) - 1
                    /\ app'[c].currentView = app[c].currentView]_vars

\* a client listens to a workspace that has no document (its creation
\* failed) and creates a project: the read found nothing and addProject is
\* about to write the new project alone
C20_Witness ==
    \E c \in Clients :
        /\ ~store.exists
        /\ tasks[c] # <<>> /\ tasks[c][1].kind = "create" /\ tasks[c][1].pc = "write"
        /\ Len(tasks[c][1].data.projects) = 1

\* C21: when a write of saveWorkspace({projects}) reaches the store, the
\* stored projects array becomes exactly the array given, whatever was stored
\* before, and the stored customSteps stays as it was.
C21_SaveReplacesProjectsOnly ==
    [][\A c \in Clients :
          (Wrote(c) /\ Writing(c).customSteps.t = "undef") =>
              /\ store'.projects = Writing(c).projects
              /\ store'.customSteps = store.customSteps]_vars

\* a write has just replaced the stored project, which a client still shows
\* with only S2 complete, by a copy that has only S1 complete; the template
\* is still stored
C21_Witness ==
    \E c \in Clients :
        /\ inbox[c] = <<store>>
        /\ app[c].activeProject # 0
        /\ Flags(heap[c][app[c].activeProject].steps) = <<FALSE, TRUE>>
        /\ Flags(store.projects[1].steps) = <<TRUE, FALSE>>
        /\ store.customSteps = Arr(SubSeq(InitTemplate, 1, 2))

\* C22: when a write fails, the stored document stays as it was and no
\* snapshot goes out, the user is shown an error message that carries the
\* error's message (the alert of saveWorkspace, or the error toast of the
\* settings save), and the handler does not issue the write again.
C22_WriteFailureReported ==
    [][\A c \in Clients, i \in 1..MaxInflight, now \in Times :
          TaskWrite(c, i, FALSE, now) =>
              /\ store' = store
              /\ inbox' = inbox
              /\ app'[c].errorShown =
                    (IF tasks[c][i].kind = "globalSave" THEN "settings not saved: "
                     ELSE "save failed! Error: ") \o ErrorMessage
              /\ \A j \in 1..Len(tasks'[c]) : tasks'[c][j].pc # "write"]_vars

\* the write of a global save failed: the error is shown, the settings stay
\* open with the edited template, and the store holds the old template
C22_Witness ==
    \E c \in Clients :
        /\ app[c].errorShown = "settings not saved: " \o ErrorMessage
        /\ app[c].settingsOpen /\ tasks[c] = <<>>
        /\ app[c].stepsTemplate[1].title = "T"
        /\ store.customSteps = Arr(ChecklistTemplate)

\* the typed text is empty or white space only
Blank(typed) == \A k \in 1..Len(typed) : typed[k] = " "

\* C23: a handler that adds a checklist item, a timeline entry, a postit or
\* an item note, or saves the edit of a timeline entry or postit, and is
\* given a text that is empty after trimming, leaves the client's projects,
\* its fields, the store and the snapshot queues as they were and suspends
\* in no read or write of the store.
C23_BlankTextChangesNothing ==
    [][\A c \in Clients, typed \in TextInputs, now \in Times :
          (/\ Blank(typed)
           /\ \/ \E deadline \in DateTimeInputs : AddChecklistItem(c, typed, deadline, now)
              \/ AddTimelineEntry(c, typed, now)
              \/ AddPostit(c, typed, now)
              \/ \E index \in 0..(MaxItems - 1) : SaveItemNote(c, index, typed, now)
              \/ \E index \in 0..(MaxEntries - 1) : SaveTimelineEdit(c, index, typed)
              \/ \E index \in 0..(MaxEntries - 1) : SavePostitEdit(c, index, typed))
          => UNCHANGED <<store, app, heap, tasks, inbox>>]_vars

\* the user started one handler and nothing but that count differs from the
\* initial state: the handler was refused
C23_Witness ==
    /\ ops = 1
    /\ store.projects = <<EntriesProject>>
    /\ heap["A"] = Opened(EntriesProject, EntriesTemplate).h
    /\ app["A"] = Opened(EntriesProject, EntriesTemplate).a
    /\ tasks["A"] = <<>> /\ inbox["A"] = <<>>

\* the timeline of the step the page lists, after the step taken
ListedTimelineAfter(c) ==
    OrEmpty(heap'[c][app'[c].timelineObj].steps[app'[c].timelineIndex + 1].timeline)

\* C24: the delete button of a listed timeline entry leaves, of the step's
\* timeline, exactly the entries whose timestamp differs from the deleted
\* entry's timestamp, in the order they had.
C24_DeleteByTimestamp ==
    [][\A c \in Clients, index \in 0..(MaxEntries - 1) :
          DeleteTimelineNote(c, index) =>
              LET deleted == RenderedTimeline(c)[index + 1]
                  Other(n) == n.timestamp # deleted.timestamp
              IN  ListedTimelineAfter(c) = SelectSeq(RenderedTimeline(c), Other)]_vars

\* one delete took two entries of equal timestamp out of a timeline of
\* three, which the store still holds
C24_Witness ==
    \E c \in Clients :
        /\ Len(tasks[c]) = 1 /\ tasks[c][1].kind = "deleteTimeline"
        /\ RenderedTimeline(c) = <<[text |-> "x", timestamp |-> ISO(1000)]>>
        /\ Len(store.projects[1].steps[1].timeline.a) = 3

\* the first-incomplete rule: the pointer is at the first incomplete step
\* (at the last step when there is none) and the status is 'completed'
\* exactly when every step is completed
FirstIncompleteRule(p) ==
    /\ PointsAtFirstIncomplete(p)
    /\ p.status = (IF \A k \in 1..Len(p.steps) : p.steps[k].completed
                   THEN "completed" ELSE "active")

\* C25: the confirm button of the completion dialog sets the completed flag
\* of the dialog's step and of no other step, and reverting a completed
\* step i gives the flags, the pointer and the status of every project that
\* obeys the first-incomplete rule and differs from the project reverted in
\* step i being incomplete: what the completion of step i started from.
C25_CompleteThenRevertRestores ==
    [][\A c \in Clients :
          StartedToggle(c) =>
              LET i == tasks'[c][Len(tasks'[c])].stepIndex
                  p == heap[c][app[c].activeProject]
                  after == heap'[c][app'[c].activeProject]
              IN  IF app[c].dialogObj # 0
                  THEN Flags(after.steps) = [Flags(p.steps) EXCEPT ![i + 1] = TRUE]
                  ELSE \A pointer \in 0..(Len(p.steps) - 1), status \in {"active", "completed"} :
                          LET before == [p EXCEPT !.steps[i + 1].completed = FALSE,
                                                  !.currentStepIndex = pointer,
                                                  !.status = status]
                          IN  FirstIncompleteRule(before) =>
                                  /\ Flags(after.steps) = Flags(before.steps)
                                  /\ after.currentStepIndex = pointer
                                  /\ after.status = status]_vars

\* the revert of step 2, completed and stored while step 1 was the current
\* step, is on its way to the store
C25_Witness ==
    \E c \in Clients :
        /\ Len(tasks[c]) = 1 /\ tasks[c][1].kind = "toggle" /\ tasks[c][1].stepIndex = 1
        /\ Flags(heap[c][app[c].activeProject].steps) = <<FALSE, FALSE, FALSE>>
        /\ heap[c][app[c].activeProject].currentStepIndex = 0
        /\ Flags(store.projects[1].steps) = <<FALSE, TRUE, FALSE>>

\* C26: no two projects of the stored array have the same id.
C26_StoredIdsDistinct ==
    \A m, n \in 1..Len(store.projects) :
        store.projects[m].id = store.projects[n].id => m = n

\* C28: when the write of addProject(p) reaches the store, the stored array
\* becomes p followed by the projects stored until then, in their order,
\* whether the read of addProject succeeded or failed.
C28_AddProjectPrepends ==
    [][\A c \in Clients, i \in 1..MaxInflight, now \in Times :
          (TaskWrite(c, i, TRUE, now) /\ tasks[c][i].kind = "create") =>
              store'.projects = <<Head(tasks[c][i].data.projects)>> \o store.projects]_vars

\* C29: when the write of deleteProject(id) reaches the store, the stored
\* array becomes the projects stored until then whose id is not id, unchanged
\* and in their order, whether the read of deleteProject succeeded or failed.
C29_DeleteProjectRemovesOnlyId ==
    [][\A c \in Clients, i \in 1..MaxInflight, now \in Times :
          (TaskWrite(c, i, TRUE, now) /\ tasks[c][i].kind = "delete") =>
              LET Other(q) == q.id # tasks[c][i].id
              IN  store'.projects = SelectSeq(store.projects, Other)]_vars

\* in this step the write of an updateProject call of client c, suspended
\* handler i, reaches the store
UpdateWritten(c, i, now) ==
    TaskWrite(c, i, TRUE, now) /\ tasks[c][i].kind \in UpdateKinds

\* C30: when the write of updateProject(p) reaches the store, every stored
\* project whose id is not p.id stays as it was stored.
C30_UpdateChangesOnlyOwnEntry ==
    [][\A c \in Clients, i \in 1..MaxInflight, now \in Times :
          UpdateWritten(c, i, now) =>
              /\ Len(store'.projects) = Len(store.projects)
              /\ \A n \in 1..Len(store.projects) :
                     store.projects[n].id # tasks[c][i].id =>
                         store'.projects[n] = store.projects[n]]_vars

\* C30 as amended: updateProject(p) stores the array it read with the first
\* entry whose id is p.id replaced by p; the projects of other ids are
\* stored as they were read, not as they are stored when the write arrives.
C30_UpdateReplacesEntryOfArrayRead ==
    [][\A c \in Clients, i \in 1..MaxInflight, now \in Times :
          /\ (/\ TaskRead(c, i, TRUE, now)
              /\ tasks[c][i].kind \in UpdateKinds
              /\ Len(tasks'[c]) = Len(tasks[c])) =>
                 LET p == heap[c][tasks[c][i].obj]
                     written == tasks'[c][i].data.projects
                 IN  /\ Len(written) = Len(store.projects)
                     /\ \A n \in 1..Len(written) :
                            written[n] =
                               IF /\ store.projects[n].id = p.id
                                  /\ \A m \in 1..(n - 1) : store.projects[m].id # p.id
                               THEN p ELSE store.projects[n]
          /\ UpdateWritten(c, i, now) => store'.projects = tasks[c][i].data.projects]_vars

\* each client has checked the item of its project once and is done; the
\* store holds B's change and not A's
C30_Witness ==
    /\ ops = 2
    /\ \A c \in Clients : tasks[c] = <<>> /\ inbox[c] = <<>>
    /\ ~store.projects[1].steps[1].checklist[1].checked
    /\ store.projects[2].steps[1].checklist[1].checked

\* the project that the handler started in this step hands to updateProject
HandedToUpdate(c) == heap'[c][tasks'[c][Len(tasks'[c])].obj]

\* C27: the project a handler hands to updateProject contains the handler's
\* mutation: the step of the confirmed completion dialog is completed, the
\* item of the changed checkbox is toggled, the deleted postit is gone,
\* also when a snapshot replaced the active project since the dialog was
\* opened or the step was rendered.
C27_MutationInWrittenProject ==
    [][\A c \in Clients, now \in Times :
          /\ (ConfirmStepComplete(c, "D1", "2026-01-01", now) /\ app[c].activeProject # 0)
                => HandedToUpdate(c).steps[app[c].dialogIndex + 1].completed
          /\ \A index \in 0..(MaxItems - 1) :
                CheckboxChange(c, index, now) =>
                    HandedToUpdate(c).steps[app[c].domIndex + 1].checklist[index + 1].checked
                        = ~RenderedItems(c)[index + 1].checked
          /\ \A index \in 0..(MaxEntries - 1) :
                DeletePostit(c, index) =>
                    OrEmpty(HandedToUpdate(c).steps[app[c].postitsIndex + 1].postits)
                        = RemoveAt(RenderedPostits(c), index + 1)]_vars

\* C31: the write by which handleAccessCodeSubmit creates the workspace
\* removes no project that the workspace document already holds.
C31_CreationKeepsProjects ==
    [][\A c \in Clients, i \in 1..MaxInflight :
          CreateWorkspaceDone(c, i, TRUE) =>
              \A n \in 1..Len(store.projects) :
                  \E m \in 1..Len(store'.projects) :
                      store'.projects[m] = store.projects[n]]_vars

\* C32: when the write of handleMigration failed, the local item
\* 'protracker_projects' is still there afterwards.
C32_FailedMigrationKeepsLocal ==
    [][\A c \in Clients, i \in 1..MaxInflight :
          MigrationWriteDone(c, i, FALSE) =>
              app'[c].localProjects = app[c].localProjects]_vars

\* C33: the write of handleMigration keeps every project that the workspace
\* held before it.
C33_MigrationKeepsStored ==
    [][\A c \in Clients, i \in 1..MaxInflight :
          MigrationWriteDone(c, i, TRUE) =>
              \A n \in 1..Len(store.projects) :
                  \E m \in 1..Len(store'.projects) :
                      store'.projects[m] = store.projects[n]]_vars

\* null and undefined both stand for "no value"
Value(v) == IF v \in {Null, Absent} THEN Null ELSE v

\* C34: the project-specific save leaves, in every step of the new steps
\* array whose id is the id of a step of the old one, the timeline entries,
\* the postits, the document number, the completed flag and completedAt as
\* they were.
C34_ProjectSaveKeepsStepData ==
    [][\A c \in Clients :
          (SaveProjectSettings(c) /\ app[c].activeProject # 0) =>
              LET old == heap[c][app[c].activeProject].steps
                  new == heap'[c][app'[c].activeProject].steps
              IN  \A j \in 1..Len(old), k \in 1..Len(new) :
                      old[j].id = new[k].id =>
                          /\ OrEmpty(new[k].timeline) = OrEmpty(old[j].timeline)
                          /\ OrEmpty(new[k].postits) = OrEmpty(old[j].postits)
                          /\ Value(new[k].documentNumber) = Value(old[j].documentNumber)
                          /\ new[k].completed = old[j].completed
                          /\ Value(new[k].completedAt) = Value(old[j].completedAt)]_vars

\* C35: while a client shows the detail view of a project, the index of the
\* step it views is an index of that project's steps:
\* 0 <= activeWorkflowStepIndex < activeProject.steps.length.
C35_ViewedStepInRange ==
    \A c \in Clients :
        (app[c].currentView = "detail" /\ app[c].activeProject # 0) =>
            /\ 0 <= app[c].activeWorkflowStepIndex
            /\ app[c].activeWorkflowStepIndex < Len(heap[c][app[c].activeProject].steps)

\* what a step's completion consists of
Completion(steps) ==
    [k \in 1..Len(steps) |->
        <<steps[k].completed, Value(steps[k].completedAt), Value(steps[k].documentNumber)>>]

\* C36: a click on a workflow tab leaves every step's completed flag,
\* completedAt and documentNumber and the project's status and
\* currentStepIndex as they were, and calls no store operation.
C36_TabClickOnlySelects ==
    [][\A c \in Clients, index \in 0..(MaxSteps - 1), now \in Times :
          (TabClick(c, index, now) /\ app[c].activeProject # 0) =>
              LET before == heap[c][app[c].activeProject]
                  after == heap'[c][app'[c].activeProject]
              IN  /\ Completion(after.steps) = Completion(before.steps)
                  /\ after.status = before.status
                  /\ after.currentStepIndex = before.currentStepIndex
                  /\ tasks'[c] = tasks[c]]_vars

\* the ids of the projects in a list
Ids(projects) == {projects[n].id : n \in 1..Len(projects)}

\* the suspended handlers of a list that wait for their write
PendingWrites(ts) == {k \in 1..Len(ts) : ts[k].pc = "write"}

\* C37 (as claimed): when the write of updateProject(p) reaches the store and
\* no stored project has the id of p, the stored document stays as it was: a
\* deleted project is not stored again.
C37_DeletedNeverRecreated ==
    [][\A c \in Clients, i \in 1..MaxInflight, now \in Times :
          (UpdateWritten(c, i, now) /\ tasks[c][i].id \notin Ids(store.projects)) =>
              store' = store]_vars

\* C37 (amended): when updateProject(p) has read a projects array that holds
\* no project of the id of p, also after a failed read, it issues no write:
\* the stored document is unchanged and no handler of the client is left
\* waiting for a write.
C37_NoWriteWhenReadFindsNone ==
    [][\A c \in Clients, i \in 1..MaxInflight, ok \in BOOLEAN, now \in Times :
          (/\ TaskRead(c, i, ok, now)
           /\ tasks[c][i].kind \in UpdateKinds
           /\ heap[c][tasks[c][i].obj].id \notin Ids(GetProjects(ok))) =>
              /\ store' = store
              /\ Cardinality(PendingWrites(tasks'[c])) = Cardinality(PendingWrites(tasks[c]))]_vars

\* a client holds, ticked, the project that has been deleted from the store;
\* its updateProject has ended, the store holds the other project only
C37_Witness ==
    \E c \in Clients :
        /\ \A d \in Clients : tasks[d] = <<>> /\ inbox[d] = <<>>
        /\ app[c].activeProject # 0
        /\ heap[c][app[c].activeProject].id = "1000"
        /\ heap[c][app[c].activeProject].steps[1].checklist[1].checked
        /\ store.projects = <<PairProject(999)>>
        /\ \E d \in Clients \ {c} :
               /\ app[d].currentView = "projects"
               /\ ~heap[d][app[d].activeProject].steps[1].checklist[1].checked

\* every client that shows a stored project in the detail view holds the
\* steps, the status and the currentStepIndex that are stored for it
InSync ==
    \A c \in Clients :
        (app[c].currentView = "detail" /\ app[c].activeProject # 0) =>
            LET p == heap[c][app[c].activeProject] IN
            \A n \in 1..Len(store.projects) :
                store.projects[n].id = p.id =>
                    /\ p.steps = store.projects[n].steps
                    /\ p.status = store.projects[n].status
                    /\ p.currentStepIndex = store.projects[n].currentStepIndex

\* C38: once no client starts a mutation any more and every read, write and
\* snapshot has been answered, every client that views a project holds what
\* is stored for it, from then on; also when a write has failed.
C38_Convergence == <>[]InSync

\* the checklists of the steps of a project
Checklists(p) == [k \in 1..Len(p.steps) |-> p.steps[k].checklist]

\* C39: when the write of a checkbox change fails, the client's active
\* project no longer holds the change: its checklists are not the ones the
\* failed write carried, which differ from those before the change in the
\* ticked item.
C39_FailedWriteRollsBack ==
    [][\A c \in Clients, i \in 1..MaxInflight, now \in Times :
          (/\ TaskWrite(c, i, FALSE, now)
           /\ tasks[c][i].kind = "check"
           /\ app'[c].activeProject # 0
           /\ heap'[c][app'[c].activeProject].id = tasks[c][i].id) =>
              LET projects == tasks[c][i].data.projects
                  written == projects[FindIndexById(projects, tasks[c][i].id)]
              IN  Checklists(heap'[c][app'[c].activeProject]) # Checklists(written)]_vars
====
